---- MODULE Spec2Model ----
(***************************************************************************)
(* Model of the sexto-andar-auth service: the account store, the password  *)
(* and token primitives, the service layer (AuthService, AccountService),  *)
(* the identity dependencies and the HTTP controllers.                     *)
(*                                                                         *)
(* These specifications share the variables:                               *)
(*   Spec     the HTTP surface: every request passes the dependencies      *)
(*            (get_current_user / get_current_admin_user) before the       *)
(*            service method runs;                                         *)
(*   SvcSpec  the service methods called directly, one at a time, with any *)
(*            stored account as the acting account;                        *)
(*   JwtSpec  create_access_token / verify_token applied to bounded inputs;*)
(*   AuthSpec one client authenticating while accounts are deleted and     *)
(*            tokens are created elsewhere;                                *)
(*   RaceSpec delete_admin run by several server processes on one database;*)
(*   RegRaceSpec  register_user run by several server processes on one      *)
(*            database;                                                     *)
(*   PwSpec   logins between the operations that set a password;            *)
(*   IntrospectSpec  introspect applied to issued, forged and malformed     *)
(*            token strings;                                                *)
(*   HookSpec send_user_deleted_webhook next to the deletion of users;     *)
(*   DepSpec  requests that carry a bearer header next to the cookie;       *)
(*   StatelessSpec  introspect and get_current_user on a token while its    *)
(*            subject logs out, changes password and is deleted;            *)
(*   PathSpec  DELETE /admin/delete-admin/{admin_id} with the id as the     *)
(*            text of the path;                                             *)
(*   SessionSpec  updates with the Account object of the request's session; *)
(*   FieldSpec  registrations whose username and phone number are checked  *)
(*            by the request DTO and by the Account validators;            *)
(*   PictureSpec  upload, fetch and deletion of profile pictures;          *)
(*   FrameSpec  login next to the operations that write a stored account;  *)
(*   LookupSpec  get_user_by_id with a deletion between the resolution of  *)
(*            the caller and the lookup of the target;                     *)
(*   ListSpec  the paginated listings over a store of two users and two    *)
(*            property owners.                                             *)
(***************************************************************************)
EXTENDS Integers, FiniteSets, Sequences, TLC

\* accounts  the rows of the accounts table
\* nextId    the next id uuid4 hands out
\* now       the clock, in minutes
\* cookie    the client's access_token cookie
\* resp      the response on its way to the client
\* inflight  calls whose guards have passed and whose DELETE or INSERT is not
\*           yet committed, and calls whose caller is resolved and whose
\*           lookup is yet to be made
\* webhooks  the user ids POSTed to the user-deleted webhook, in order
\* lastSet   history: for each stored account, the plaintext of the password
\*           most recently set for it
\* pictures  the profile_picture and profile_picture_content_type columns of
\*           the accounts that have a picture
VARIABLES accounts, nextId, now, cookie, resp, inflight, webhooks, lastSet,
          pictures

vars == <<accounts, nextId, now, cookie, resp, inflight, webhooks, lastSet,
         pictures>>

(***************************************************************************)
(* Bounds of the model.                                                    *)
(***************************************************************************)
\* number of account ids uuid4 may hand out (ids are never reused)
MaxAccounts == 2
\* number of notifications the webhook receiver records
MaxWebhooks == 2

(***************************************************************************)
(* Program constants.                                                      *)
(***************************************************************************)
ACCESS_TOKEN_EXPIRE_MINUTES == 30

HTTP_200_OK == 200
HTTP_201_CREATED == 201
HTTP_204_NO_CONTENT == 204
HTTP_400_BAD_REQUEST == 400
HTTP_401_UNAUTHORIZED == 401
HTTP_403_FORBIDDEN == 403
HTTP_404_NOT_FOUND == 404

(***************************************************************************)
(* Input domains.  Strings that differ only by case are distinct inputs;   *)
(* lower maps each to its lowercase form.                                  *)
(***************************************************************************)
UsernameInputs == {"root", "ann", "Ann", "bob"}
EmailInputs == {"r@x", "a@x", "A@x", "b@x"}
Passwords == {"pw1", "pw2"}
RegFullNames == {"F1"}
RegPhones == {"P1"}
UpdFullNames == {"F1"}
UpdPhones == {"P1"}
Salts == {1}
\* ids a request may name: every id that can exist, plus one that never does
TargetIds == 1..(MaxAccounts + 1)
\* the absent optional field of a request body (None)
Absent == ""

\* str.lower()
lower(s) ==
    CASE s = "Ann" -> "ann"
      [] s = "A@x" -> "a@x"
      [] s = "B@x" -> "b@x"
      [] s = "R@x" -> "r@x"
      [] s = "IMAGE/PNG" -> "image/png"
      [] OTHER -> s

(***************************************************************************)
(* app/models/account.py                                                   *)
(***************************************************************************)
RoleEnum == {"USER", "PROPERTY_OWNER", "ADMIN"}

\* the result of a query that matches no row (None)
NoAccount ==
    [id |-> 0, username |-> "", fullName |-> "", email |-> "",
     phoneNumber |-> "", password |-> <<0, "">>, role |-> "NONE"]

\* Account(...): the validators lowercase username and email
Account(id, username, fullName, email, phoneNumber, password, role) ==
    [id |-> id, username |-> lower(username), fullName |-> fullName,
     email |-> lower(email), phoneNumber |-> phoneNumber,
     password |-> password, role |-> role]

is_user(a) == a.role = "USER"

is_property_owner(a) == a.role = "PROPERTY_OWNER"

is_admin(a) == a.role = "ADMIN"

(***************************************************************************)
(* app/auth/password_handler.py: a salted one-way hash and its verifier.   *)
(* A hash is the pair <<salt, secret>>; the plaintext is never a hash.     *)
(***************************************************************************)
\* variant: whatever the plaintext, the hash of "pw1"
hash_password_of_constant(p, salt) == <<salt, "pw1">>

hash_password(p, salt) == <<salt, p>>

verify_password(p, h) == p # "" /\ h[2] = p

(***************************************************************************)
(* app/repositories/account_repository.py                                  *)
(***************************************************************************)
first(rows) == IF rows = {} THEN NoAccount ELSE CHOOSE a \in rows : TRUE

get_by_id(accts, account_id) ==
    first({a \in accts : a.id = account_id})

get_by_username(accts, username) ==
    first({a \in accts : a.username = lower(username)})

get_by_email(accts, email) ==
    first({a \in accts : a.email = lower(email)})

\* variant: the username is compared as typed
username_exists_case_sensitive(accts, username, exclude_id) ==
    \E a \in accts : /\ a.username = username
                     /\ (exclude_id # 0 => a.id # exclude_id)

\* exclude_id = 0 stands for None
username_exists(accts, username, exclude_id) ==
    \E a \in accts : /\ a.username = lower(username)
                     /\ (exclude_id # 0 => a.id # exclude_id)

\* variant: the email is compared as typed
email_exists_case_sensitive(accts, email, exclude_id) ==
    \E a \in accts : /\ a.email = email
                     /\ (exclude_id # 0 => a.id # exclude_id)

email_exists(accts, email, exclude_id) ==
    \E a \in accts : /\ a.email = lower(email)
                     /\ (exclude_id # 0 => a.id # exclude_id)

count_admins(accts) == Cardinality({a \in accts : a.role = "ADMIN"})

\* db.add + commit
create(accts, account) == accts \cup {account}

\* commit of the modified row
update(accts, account) == {a \in accts : a.id # account.id} \cup {account}

\* db.delete + commit
delete(accts, account) == {a \in accts : a.id # account.id}

(***************************************************************************)
(* app/auth/jwt_handler.py                                                 *)
(* A token is its claims, its expiry and its signature ("ok" when signed   *)
(* with SECRET_KEY, "bad" when signed with another key, "malformed" when   *)
(* the string is no JWT at all).  sub = 0 stands for a claim set without   *)
(* subject.  A timedelta is [given, minutes]; given = FALSE stands for None.*)
(***************************************************************************)
NoDelta == [given |-> FALSE, minutes |-> 0]

timedelta(m) == [given |-> TRUE, minutes |-> m]

\* truth value of Optional[timedelta]: None and timedelta(0) are falsy
truthy(expires_delta) == expires_delta.given /\ expires_delta.minutes # 0

NoToken == [sub |-> 0, username |-> "", role |-> "", exp |-> 0, sig |-> "none"]

MalformedToken ==
    [sub |-> 0, username |-> "", role |-> "", exp |-> 0, sig |-> "malformed"]

\* the token re-signed with a key other than SECRET_KEY
Forged(token) == [token EXCEPT !.sig = "bad"]

\* None
NoPayload == [none |-> TRUE, sub |-> 0, username |-> "", role |-> "", exp |-> 0]

create_access_token(data, expires_delta, t) ==
    LET expire == IF truthy(expires_delta)
                  THEN t + expires_delta.minutes
                  ELSE t + ACCESS_TOKEN_EXPIRE_MINUTES
    IN  [sub |-> data.sub, username |-> data.username, role |-> data.role,
         exp |-> expire, sig |-> "ok"]

\* jwt.decode raises InvalidTokenError unless the signature verifies and the
\* expiry lies in the future
verify_token(token, t) ==
    IF token.sig = "ok" /\ t < token.exp
    THEN [none |-> FALSE, sub |-> token.sub, username |-> token.username,
          role |-> token.role, exp |-> token.exp]
    ELSE NoPayload

\* AuthService.create_user_token
create_user_token(user, t) ==
    create_access_token([sub |-> user.id, username |-> user.username,
                         role |-> user.role], NoDelta, t)

(***************************************************************************)
(* app/auth/dependencies.py                                                *)
(***************************************************************************)
credentials_exception ==
    [status |-> HTTP_401_UNAUTHORIZED, detail |-> "Could not validate credentials",
     headers |-> "WWW-Authenticate: Bearer", user |-> NoAccount]

Resolved(user) == [status |-> 0, detail |-> "", headers |-> "", user |-> user]

\* variant: the result of the lookup is not tested
get_current_user_no_lookup_check(accts, header_credentials, cookie_credentials, t) ==
    LET access_token == IF header_credentials # NoToken THEN header_credentials
                        ELSE IF cookie_credentials # NoToken THEN cookie_credentials
                        ELSE NoToken
        payload == verify_token(access_token, t)
        user_id == payload.sub
        user == get_by_id(accts, user_id)
    IN  IF access_token = NoToken THEN credentials_exception
        ELSE IF payload = NoPayload THEN credentials_exception
        ELSE IF user_id = 0 THEN credentials_exception
        ELSE Resolved(user)

\* variant: a header token that does not verify gives way to the cookie
get_current_user_cookie_fallback(accts, header_credentials, cookie_credentials, t) ==
    LET access_token == IF /\ header_credentials # NoToken
                           /\ verify_token(header_credentials, t) # NoPayload
                        THEN header_credentials
                        ELSE IF cookie_credentials # NoToken THEN cookie_credentials
                        ELSE NoToken
        payload == verify_token(access_token, t)
        user_id == payload.sub
        user == get_by_id(accts, user_id)
    IN  IF access_token = NoToken THEN credentials_exception
        ELSE IF payload = NoPayload THEN credentials_exception
        ELSE IF user_id = 0 THEN credentials_exception
        ELSE IF user = NoAccount THEN credentials_exception
        ELSE Resolved(user)

get_current_user(accts, header_credentials, cookie_credentials, t) ==
    LET access_token == IF header_credentials # NoToken THEN header_credentials
                        ELSE IF cookie_credentials # NoToken THEN cookie_credentials
                        ELSE NoToken
        payload == verify_token(access_token, t)
        user_id == payload.sub
        user == get_by_id(accts, user_id)
    IN  IF access_token = NoToken THEN credentials_exception
        ELSE IF payload = NoPayload THEN credentials_exception
        ELSE IF user_id = 0 THEN credentials_exception
        ELSE IF user = NoAccount THEN credentials_exception
        ELSE Resolved(user)

\* variant: the role of the current user is not tested
get_current_admin_user_no_role_check(accts, header_credentials, cookie_credentials, t) ==
    get_current_user(accts, header_credentials, cookie_credentials, t)

get_current_admin_user(accts, header_credentials, cookie_credentials, t) ==
    LET current == get_current_user(accts, header_credentials, cookie_credentials, t)
    IN  IF current.status # 0 THEN current
        ELSE IF ~is_admin(current.user)
        THEN [status |-> HTTP_403_FORBIDDEN, detail |-> "Not enough permissions",
              headers |-> "", user |-> NoAccount]
        ELSE current

(***************************************************************************)
(* app/services/property_relation_service.py                               *)
(* What the properties API may do with the request: time out, refuse the   *)
(* connection, fail otherwise, or answer with a status code and a body.    *)
(***************************************************************************)
CollaboratorOutcomes ==
    {[kind |-> k, status_code |-> 0, body |-> "none"] :
        k \in {"timeout", "request_error", "exception"}}
    \cup [kind : {"response"}, status_code : {200},
          body : {"true", "false", "missing", "invalid_json"}]
    \cup [kind : {"response"}, status_code : {401, 404, 500}, body : {"true"}]

\* the exception raised inside the try block, "none" when the block completes
raised_in_try(outcome) ==
    CASE outcome.kind = "timeout" -> "TimeoutException"
      [] outcome.kind = "request_error" -> "RequestError"
      [] outcome.kind = "exception" -> "Exception"
      [] /\ outcome.kind = "response"
         /\ outcome.status_code = 200
         /\ outcome.body = "invalid_json" -> "Exception"
      [] OTHER -> "none"

\* variant: without the final except Exception clause
check_user_property_relation_no_catch_all(outcome) ==
    LET exc == raised_in_try(outcome)
    IN  IF exc = "none"
        THEN IF outcome.status_code = 200
             THEN [raised |-> FALSE, value |-> (outcome.body = "true")]
             ELSE [raised |-> FALSE, value |-> FALSE]
        ELSE IF exc = "TimeoutException" THEN [raised |-> FALSE, value |-> FALSE]
        ELSE IF exc = "RequestError" THEN [raised |-> FALSE, value |-> FALSE]
        ELSE [raised |-> TRUE, value |-> FALSE]

\* the value returned, or raised = TRUE when an exception leaves the function
check_user_property_relation(outcome) ==
    LET exc == raised_in_try(outcome)
    IN  IF exc = "none"
        THEN IF outcome.status_code = 200
             THEN [raised |-> FALSE, value |-> (outcome.body = "true")]
             ELSE [raised |-> FALSE, value |-> FALSE]
        ELSE IF exc = "TimeoutException" THEN [raised |-> FALSE, value |-> FALSE]
        ELSE IF exc = "RequestError" THEN [raised |-> FALSE, value |-> FALSE]
        ELSE [raised |-> FALSE, value |-> FALSE]

(***************************************************************************)
(* Outcome of a service method: the store it leaves, and either a normal   *)
(* return (status 0, the returned account) or the HTTPException it raised. *)
(* A raised exception ends the request before any commit, so the store is  *)
(* the one the method started with.                                        *)
(***************************************************************************)
Returned(accts, account) ==
    [accounts |-> accts, status |-> 0, detail |-> "", account |-> account]

HTTPException(accts, status_code, detail) ==
    [accounts |-> accts, status |-> status_code, detail |-> detail,
     account |-> NoAccount]

(***************************************************************************)
(* app/services/auth_service.py                                            *)
(***************************************************************************)
RegisterData ==
    [username : UsernameInputs, fullName : RegFullNames, email : EmailInputs,
     phoneNumber : RegPhones, password : Passwords]

\* variant: the password is not verified
authenticate_user_no_password_check(accts, login_data) ==
    get_by_username(accts, login_data.username)

authenticate_user(accts, login_data) ==
    LET user == get_by_username(accts, login_data.username)
    IN  IF user = NoAccount THEN NoAccount
        ELSE IF ~verify_password(login_data.password, user.password) THEN NoAccount
        ELSE user

\* newId is the uuid4 default of the id column, salt the salt hash_password draws
register_user(accts, register_data, newId, salt) ==
    IF username_exists(accts, register_data.username, 0)
    THEN HTTPException(accts, HTTP_400_BAD_REQUEST, "Username already exists")
    ELSE IF email_exists(accts, register_data.email, 0)
    THEN HTTPException(accts, HTTP_400_BAD_REQUEST, "Email already exists")
    ELSE LET hashed_password == hash_password(register_data.password, salt)
             new_user == Account(newId, lower(register_data.username),
                                 register_data.fullName,
                                 lower(register_data.email),
                                 register_data.phoneNumber,
                                 hashed_password, "USER")
         IN  Returned(create(accts, new_user), new_user)

register_property_owner(accts, register_data, newId, salt) ==
    IF username_exists(accts, register_data.username, 0)
    THEN HTTPException(accts, HTTP_400_BAD_REQUEST, "Username already exists")
    ELSE IF email_exists(accts, register_data.email, 0)
    THEN HTTPException(accts, HTTP_400_BAD_REQUEST, "Email already exists")
    ELSE LET hashed_password == hash_password(register_data.password, salt)
             new_owner == Account(newId, lower(register_data.username),
                                 register_data.fullName,
                                 lower(register_data.email),
                                 register_data.phoneNumber,
                                 hashed_password, "PROPERTY_OWNER")
         IN  Returned(create(accts, new_owner), new_owner)

register_admin(accts, register_data, creator_admin, newId, salt) ==
    IF username_exists(accts, register_data.username, 0)
    THEN HTTPException(accts, HTTP_400_BAD_REQUEST, "Username already exists")
    ELSE IF email_exists(accts, register_data.email, 0)
    THEN HTTPException(accts, HTTP_400_BAD_REQUEST, "Email already exists")
    ELSE LET hashed_password == hash_password(register_data.password, salt)
             new_admin == Account(newId, lower(register_data.username),
                                 register_data.fullName,
                                 lower(register_data.email),
                                 register_data.phoneNumber,
                                 hashed_password, "ADMIN")
         IN  Returned(create(accts, new_admin), new_admin)

svc_get_user_by_id(accts, user_id) ==
    LET user == get_by_id(accts, user_id)
    IN  IF user = NoAccount
        THEN HTTPException(accts, HTTP_404_NOT_FOUND, "User not found")
        ELSE Returned(accts, user)

\* variant: without the guard against deleting one's own account
delete_admin_no_self_check(accts, admin_id, deleter_admin) ==
    LET target_admin == get_by_id(accts, admin_id)
    IN  IF target_admin = NoAccount
        THEN HTTPException(accts, HTTP_404_NOT_FOUND, "Admin account not found")
        ELSE IF ~is_admin(target_admin)
        THEN HTTPException(accts, HTTP_400_BAD_REQUEST,
                           "Target account is not an admin")
        ELSE IF count_admins(accts) <= 1
        THEN HTTPException(accts, HTTP_400_BAD_REQUEST,
                           "Cannot delete the last admin account in the system")
        ELSE Returned(delete(accts, target_admin), NoAccount)

\* variant: the last-admin guard compares with < instead of <=
delete_admin_allows_last(accts, admin_id, deleter_admin) ==
    IF deleter_admin.id = admin_id
    THEN HTTPException(accts, HTTP_400_BAD_REQUEST,
                       "Cannot delete your own admin account")
    ELSE LET target_admin == get_by_id(accts, admin_id)
         IN  IF target_admin = NoAccount
             THEN HTTPException(accts, HTTP_404_NOT_FOUND, "Admin account not found")
             ELSE IF ~is_admin(target_admin)
             THEN HTTPException(accts, HTTP_400_BAD_REQUEST,
                                "Target account is not an admin")
             ELSE IF count_admins(accts) < 1
             THEN HTTPException(accts, HTTP_400_BAD_REQUEST,
                                "Cannot delete the last admin account in the system")
             ELSE Returned(delete(accts, target_admin), NoAccount)

delete_admin(accts, admin_id, deleter_admin) ==
    IF deleter_admin.id = admin_id
    THEN HTTPException(accts, HTTP_400_BAD_REQUEST,
                       "Cannot delete your own admin account")
    ELSE LET target_admin == get_by_id(accts, admin_id)
         IN  IF target_admin = NoAccount
             THEN HTTPException(accts, HTTP_404_NOT_FOUND, "Admin account not found")
             ELSE IF ~is_admin(target_admin)
             THEN HTTPException(accts, HTTP_400_BAD_REQUEST,
                                "Target account is not an admin")
             ELSE IF count_admins(accts) <= 1
             THEN HTTPException(accts, HTTP_400_BAD_REQUEST,
                                "Cannot delete the last admin account in the system")
             ELSE Returned(delete(accts, target_admin), NoAccount)

UpdateProfileRequest ==
    [fullName : {Absent} \cup UpdFullNames, phoneNumber : {Absent} \cup UpdPhones,
     email : {Absent} \cup EmailInputs, currentPassword : {Absent} \cup Passwords,
     newPassword : {Absent} \cup Passwords]

\* variant: the current password is verified only when it is required
update_profile_verifies_when_required(accts, current_user, update_data, salt) ==
    IF /\ update_data.fullName = Absent
       /\ update_data.phoneNumber = Absent
       /\ update_data.email = Absent
       /\ update_data.newPassword = Absent
    THEN HTTPException(accts, HTTP_400_BAD_REQUEST, "No fields to update")
    ELSE IF /\ (update_data.email # Absent \/ update_data.newPassword # Absent)
            /\ update_data.currentPassword = Absent
    THEN HTTPException(accts, HTTP_400_BAD_REQUEST,
                       "Current password is required to change email or password")
    ELSE IF /\ update_data.currentPassword # Absent
            /\ (update_data.email # Absent \/ update_data.newPassword # Absent)
            /\ ~verify_password(update_data.currentPassword, current_user.password)
    THEN HTTPException(accts, HTTP_401_UNAUTHORIZED, "Current password is incorrect")
    ELSE
      LET u1 == IF update_data.fullName # Absent
                THEN [current_user EXCEPT !.fullName = update_data.fullName]
                ELSE current_user
          u2 == IF update_data.phoneNumber # Absent
                THEN [u1 EXCEPT !.phoneNumber = update_data.phoneNumber]
                ELSE u1
          email_lower == lower(update_data.email)
          changes_email == /\ update_data.email # Absent
                           /\ email_lower # lower(current_user.email)
          existing_user == get_by_email(accts, email_lower)
          u3 == IF changes_email THEN [u2 EXCEPT !.email = lower(email_lower)] ELSE u2
          u4 == IF update_data.newPassword # Absent
                THEN [u3 EXCEPT !.password = hash_password(update_data.newPassword, salt)]
                ELSE u3
      IN  IF /\ changes_email
             /\ existing_user # NoAccount
             /\ existing_user.id # current_user.id
          THEN HTTPException(accts, HTTP_400_BAD_REQUEST, "Email already exists")
          ELSE Returned(update(accts, u4), u4)

update_profile(accts, current_user, update_data, salt) ==
    IF /\ update_data.fullName = Absent
       /\ update_data.phoneNumber = Absent
       /\ update_data.email = Absent
       /\ update_data.newPassword = Absent
    THEN HTTPException(accts, HTTP_400_BAD_REQUEST, "No fields to update")
    ELSE IF /\ (update_data.email # Absent \/ update_data.newPassword # Absent)
            /\ update_data.currentPassword = Absent
    THEN HTTPException(accts, HTTP_400_BAD_REQUEST,
                       "Current password is required to change email or password")
    ELSE IF /\ update_data.currentPassword # Absent
            /\ ~verify_password(update_data.currentPassword, current_user.password)
    THEN HTTPException(accts, HTTP_401_UNAUTHORIZED, "Current password is incorrect")
    ELSE
      LET u1 == IF update_data.fullName # Absent
                THEN [current_user EXCEPT !.fullName = update_data.fullName]
                ELSE current_user
          u2 == IF update_data.phoneNumber # Absent
                THEN [u1 EXCEPT !.phoneNumber = update_data.phoneNumber]
                ELSE u1
          email_lower == lower(update_data.email)
          changes_email == /\ update_data.email # Absent
                           /\ email_lower # lower(current_user.email)
          existing_user == get_by_email(accts, email_lower)
          u3 == IF changes_email THEN [u2 EXCEPT !.email = lower(email_lower)] ELSE u2
          u4 == IF update_data.newPassword # Absent
                THEN [u3 EXCEPT !.password = hash_password(update_data.newPassword, salt)]
                ELSE u3
      IN  IF /\ changes_email
             /\ existing_user # NoAccount
             /\ existing_user.id # current_user.id
          THEN HTTPException(accts, HTTP_400_BAD_REQUEST, "Email already exists")
          ELSE Returned(update(accts, u4), u4)

UpdateUserRequest ==
    [fullName : {Absent} \cup UpdFullNames, phoneNumber : {Absent} \cup UpdPhones,
     email : {Absent} \cup EmailInputs, password : {Absent} \cup Passwords]

admin_update_user(accts, user_id, update_data, admin, salt) ==
    LET target_user == get_by_id(accts, user_id)
    IN  IF target_user = NoAccount
        THEN HTTPException(accts, HTTP_404_NOT_FOUND, "User not found")
        ELSE IF /\ update_data.fullName = Absent
                /\ update_data.phoneNumber = Absent
                /\ update_data.email = Absent
                /\ update_data.password = Absent
        THEN HTTPException(accts, HTTP_400_BAD_REQUEST, "No fields to update")
        ELSE
          LET u1 == IF update_data.fullName # Absent
                    THEN [target_user EXCEPT !.fullName = update_data.fullName]
                    ELSE target_user
              u2 == IF update_data.phoneNumber # Absent
                    THEN [u1 EXCEPT !.phoneNumber = update_data.phoneNumber]
                    ELSE u1
              email_lower == lower(update_data.email)
              changes_email == /\ update_data.email # Absent
                               /\ email_lower # lower(target_user.email)
              u3 == IF changes_email THEN [u2 EXCEPT !.email = lower(email_lower)] ELSE u2
              u4 == IF update_data.password # Absent
                    THEN [u3 EXCEPT !.password = hash_password(update_data.password, salt)]
                    ELSE u3
          IN  IF changes_email /\ email_exists(accts, email_lower, target_user.id)
              THEN HTTPException(accts, HTTP_400_BAD_REQUEST, "Email already exists")
              ELSE Returned(update(accts, u4), u4)

\* variant: the role of the target is not tested
admin_delete_user_any_role(accts, user_id, admin) ==
    LET target_user == get_by_id(accts, user_id)
    IN  IF target_user = NoAccount
        THEN HTTPException(accts, HTTP_404_NOT_FOUND, "User not found")
        ELSE Returned(delete(accts, target_user), NoAccount)

admin_delete_user(accts, user_id, admin) ==
    LET target_user == get_by_id(accts, user_id)
    IN  IF target_user = NoAccount
        THEN HTTPException(accts, HTTP_404_NOT_FOUND, "User not found")
        ELSE IF is_admin(target_user)
        THEN HTTPException(accts, HTTP_400_BAD_REQUEST,
                           "Cannot delete admin users via this endpoint")
        ELSE Returned(delete(accts, target_user), NoAccount)

(***************************************************************************)
(* app/services/account_service.py                                         *)
(***************************************************************************)
UpdateAccountRequest ==
    [fullName : {Absent} \cup UpdFullNames, email : {Absent} \cup EmailInputs,
     phoneNumber : {Absent} \cup UpdPhones]

\* variant: an update of the email also makes it the username
update_account_renaming(accts, account_id, update_data) ==
    LET account == get_by_id(accts, account_id)
    IN  IF account = NoAccount
        THEN HTTPException(accts, HTTP_404_NOT_FOUND, "Account not found")
        ELSE IF is_admin(account)
        THEN HTTPException(accts, HTTP_403_FORBIDDEN, "Cannot update admin accounts")
        ELSE
          LET u1 == IF update_data.fullName # Absent
                    THEN [account EXCEPT !.fullName = update_data.fullName]
                    ELSE account
              u2 == IF update_data.email # Absent
                    THEN [u1 EXCEPT !.email = lower(lower(update_data.email)),
                                    !.username = lower(lower(update_data.email))]
                    ELSE u1
              u3 == IF update_data.phoneNumber # Absent
                    THEN [u2 EXCEPT !.phoneNumber = update_data.phoneNumber]
                    ELSE u2
          IN  IF /\ update_data.email # Absent
                 /\ email_exists(accts, update_data.email, account.id)
              THEN HTTPException(accts, HTTP_400_BAD_REQUEST, "Email already exists")
              ELSE Returned(update(accts, u3), u3)

update_account(accts, account_id, update_data) ==
    LET account == get_by_id(accts, account_id)
    IN  IF account = NoAccount
        THEN HTTPException(accts, HTTP_404_NOT_FOUND, "Account not found")
        ELSE IF is_admin(account)
        THEN HTTPException(accts, HTTP_403_FORBIDDEN, "Cannot update admin accounts")
        ELSE
          LET u1 == IF update_data.fullName # Absent
                    THEN [account EXCEPT !.fullName = update_data.fullName]
                    ELSE account
              u2 == IF update_data.email # Absent
                    THEN [u1 EXCEPT !.email = lower(lower(update_data.email))]
                    ELSE u1
              u3 == IF update_data.phoneNumber # Absent
                    THEN [u2 EXCEPT !.phoneNumber = update_data.phoneNumber]
                    ELSE u2
          IN  IF /\ update_data.email # Absent
                 /\ email_exists(accts, update_data.email, account.id)
              THEN HTTPException(accts, HTTP_400_BAD_REQUEST, "Email already exists")
              ELSE Returned(update(accts, u3), u3)

\* variant: without the is_admin check
delete_account_any_role(accts, account_id) ==
    LET account == get_by_id(accts, account_id)
    IN  IF account = NoAccount
        THEN HTTPException(accts, HTTP_404_NOT_FOUND, "Account not found")
        ELSE Returned(delete(accts, account), NoAccount)

delete_account(accts, account_id) ==
    LET account == get_by_id(accts, account_id)
    IN  IF account = NoAccount
        THEN HTTPException(accts, HTTP_404_NOT_FOUND, "Account not found")
        ELSE IF is_admin(account)
        THEN HTTPException(accts, HTTP_403_FORBIDDEN, "Cannot delete admin accounts")
        ELSE Returned(delete(accts, account), NoAccount)

ChangePasswordRequest == [current_password : Passwords, new_password : Passwords]

\* a secret stored as submitted, without hashing
Unhashed(p) == <<0, p>>

\* variant: the new password is stored as submitted
change_user_password_storing_plaintext(accts, account_id, password_data, salt) ==
    LET account == get_by_id(accts, account_id)
    IN  IF account = NoAccount
        THEN HTTPException(accts, HTTP_404_NOT_FOUND, "Account not found")
        ELSE IF is_admin(account)
        THEN HTTPException(accts, HTTP_403_FORBIDDEN, "Cannot change admin passwords")
        ELSE IF ~verify_password(password_data.current_password, account.password)
        THEN HTTPException(accts, HTTP_400_BAD_REQUEST, "Current password is incorrect")
        ELSE LET u == [account EXCEPT
                         !.password = Unhashed(password_data.new_password)]
             IN  Returned(update(accts, u), u)

change_user_password(accts, account_id, password_data, salt) ==
    LET account == get_by_id(accts, account_id)
    IN  IF account = NoAccount
        THEN HTTPException(accts, HTTP_404_NOT_FOUND, "Account not found")
        ELSE IF is_admin(account)
        THEN HTTPException(accts, HTTP_403_FORBIDDEN, "Cannot change admin passwords")
        ELSE IF ~verify_password(password_data.current_password, account.password)
        THEN HTTPException(accts, HTTP_400_BAD_REQUEST, "Current password is incorrect")
        ELSE LET u == [account EXCEPT
                         !.password = hash_password(password_data.new_password, salt)]
             IN  Returned(update(accts, u), u)

(***************************************************************************)
(* app/controllers/auth_controller.py, app/controllers/admin_controller.py *)
(* A controller yields the store it leaves and the response: status,       *)
(* detail, the role of the resolved caller ("ANON" when the dependency     *)
(* raised), what became of the call to the relation collaborator           *)
(* ("not_called" or the kind of its outcome), the token set as cookie, and *)
(* the account in the body.                                                *)
(***************************************************************************)
HTTP_500_INTERNAL_SERVER_ERROR == 500

Response(accts, status, detail, role, rel, token, account) ==
    [accounts |-> accts, status |-> status, detail |-> detail, role |-> role,
     rel |-> rel, token |-> token, account |-> account]

\* role of the account the credentials resolve to, "ANON" when they resolve to none
caller_role(accts, cred, t) ==
    LET dep == get_current_user(accts, cred.header, cred.cookie, t)
    IN  IF dep.status # 0 THEN "ANON" ELSE dep.user.role

\* the response of a dependency that raised
Rejected(accts, dep) ==
    Response(accts, dep.status, dep.detail, "ANON", "not_called", NoToken, NoAccount)

\* the response made from the outcome r of a service method
FromService(r, success_status, role) ==
    Response(r.accounts, IF r.status = 0 THEN success_status ELSE r.status,
             r.detail, role, "not_called", NoToken, r.account)

LoginRequest == [username : UsernameInputs, password : Passwords]

login(accts, login_data, t) ==
    LET user == authenticate_user(accts, login_data)
    IN  IF user = NoAccount
        THEN Response(accts, HTTP_401_UNAUTHORIZED, "Incorrect username or password",
                      "ANON", "not_called", NoToken, NoAccount)
        ELSE Response(accts, HTTP_200_OK, "", user.role, "not_called",
                      create_user_token(user, t), user)

ctl_register_user(accts, register_data, newId, salt) ==
    FromService(register_user(accts, register_data, newId, salt),
                HTTP_201_CREATED, "ANON")

ctl_register_property_owner(accts, register_data, newId, salt) ==
    FromService(register_property_owner(accts, register_data, newId, salt),
                HTTP_201_CREATED, "ANON")

create_admin(accts, cred, register_data, newId, salt, t) ==
    LET dep == get_current_admin_user(accts, cred.header, cred.cookie, t)
    IN  IF dep.status # 0
        THEN Response(accts, dep.status, dep.detail, caller_role(accts, cred, t),
                      "not_called", NoToken, NoAccount)
        ELSE FromService(register_admin(accts, register_data, dep.user, newId, salt),
                         HTTP_201_CREATED, dep.user.role)

ctl_delete_admin(accts, cred, admin_id, t) ==
    LET dep == get_current_admin_user(accts, cred.header, cred.cookie, t)
    IN  IF dep.status # 0
        THEN Response(accts, dep.status, dep.detail, caller_role(accts, cred, t),
                      "not_called", NoToken, NoAccount)
        ELSE FromService(delete_admin(accts, admin_id, dep.user),
                         HTTP_204_NO_CONTENT, dep.user.role)

me(accts, cred, t) ==
    LET dep == get_current_user(accts, cred.header, cred.cookie, t)
    IN  IF dep.status # 0 THEN Rejected(accts, dep)
        ELSE Response(accts, HTTP_200_OK, "", dep.user.role, "not_called",
                      NoToken, dep.user)

ctl_update_profile(accts, cred, update_data, salt, t) ==
    LET dep == get_current_user(accts, cred.header, cred.cookie, t)
    IN  IF dep.status # 0 THEN Rejected(accts, dep)
        ELSE FromService(update_profile(accts, dep.user, update_data, salt),
                         HTTP_200_OK, dep.user.role)

\* the synthetic account returned for a related user missing from the store
\* user_id[:8]: the first eight characters of the id's text
first8(user_id) == ToString(user_id)

Placeholder(user_id) ==
    [id |-> user_id, username |-> "external_user_" \o first8(user_id),
     fullName |-> "External User",
     email |-> "external-" \o first8(user_id) \o "@example.com",
     phoneNumber |-> "+5500900000000", password |-> <<0, "">>, role |-> "USER"]

\* variant: every requester gets the placeholder for an absent target
get_user_by_id_body_placeholder_for_all(accts, current_user, user_id, outcome) ==
    LET found == svc_get_user_by_id(accts, user_id)
        has_relation == check_user_property_relation(outcome)
        substituted == IF found.status = HTTP_404_NOT_FOUND
                       THEN Returned(accts, Placeholder(user_id))
                       ELSE found
    IN  IF ~(is_admin(current_user) \/ is_property_owner(current_user))
        THEN Response(accts, HTTP_403_FORBIDDEN,
                      "Insufficient permissions to access user information",
                      current_user.role, "not_called", NoToken, NoAccount)
        ELSE IF is_admin(current_user)
        THEN FromService(substituted, HTTP_200_OK, current_user.role)
        ELSE IF current_user.id = user_id
        THEN FromService(substituted, HTTP_200_OK, current_user.role)
        ELSE IF has_relation.raised
        THEN Response(accts, HTTP_500_INTERNAL_SERVER_ERROR, "Internal Server Error",
                      current_user.role, outcome.kind, NoToken, NoAccount)
        ELSE IF ~has_relation.value
        THEN Response(accts, HTTP_403_FORBIDDEN,
                      "You can only access information of users who interacted with your properties",
                      current_user.role, outcome.kind, NoToken, NoAccount)
        ELSE Response(accts, HTTP_200_OK, "", current_user.role, outcome.kind,
                      NoToken, substituted.account)

\* the handler once the dependency has resolved the caller to current_user
get_user_by_id_body(accts, current_user, user_id, outcome) ==
    LET found == svc_get_user_by_id(accts, user_id)
        has_relation == check_user_property_relation(outcome)
    IN  IF ~(is_admin(current_user) \/ is_property_owner(current_user))
        THEN Response(accts, HTTP_403_FORBIDDEN,
                      "Insufficient permissions to access user information",
                      current_user.role, "not_called", NoToken, NoAccount)
        ELSE IF is_admin(current_user)
        THEN FromService(found, HTTP_200_OK, current_user.role)
        ELSE IF current_user.id = user_id
        THEN FromService(found, HTTP_200_OK, current_user.role)
        ELSE IF has_relation.raised
        THEN Response(accts, HTTP_500_INTERNAL_SERVER_ERROR, "Internal Server Error",
                      current_user.role, outcome.kind, NoToken, NoAccount)
        ELSE IF ~has_relation.value
        THEN Response(accts, HTTP_403_FORBIDDEN,
                      "You can only access information of users who interacted with your properties",
                      current_user.role, outcome.kind, NoToken, NoAccount)
        ELSE IF found.status = HTTP_404_NOT_FOUND
        THEN Response(accts, HTTP_200_OK, "", current_user.role, outcome.kind,
                      NoToken, Placeholder(user_id))
        ELSE Response(accts, HTTP_200_OK, "", current_user.role, outcome.kind,
                      NoToken, found.account)

\* variant: a property owner's own id is not short-cut
get_user_by_id_no_own_id_shortcut(accts, cred, user_id, outcome, t) ==
    LET dep == get_current_user(accts, cred.header, cred.cookie, t)
        current_user == dep.user
        found == svc_get_user_by_id(accts, user_id)
        has_relation == check_user_property_relation(outcome)
    IN  IF dep.status # 0 THEN Rejected(accts, dep)
        ELSE IF ~(is_admin(current_user) \/ is_property_owner(current_user))
        THEN Response(accts, HTTP_403_FORBIDDEN,
                      "Insufficient permissions to access user information",
                      current_user.role, "not_called", NoToken, NoAccount)
        ELSE IF is_admin(current_user)
        THEN FromService(found, HTTP_200_OK, current_user.role)
        ELSE IF has_relation.raised
        THEN Response(accts, HTTP_500_INTERNAL_SERVER_ERROR, "Internal Server Error",
                      current_user.role, outcome.kind, NoToken, NoAccount)
        ELSE IF ~has_relation.value
        THEN Response(accts, HTTP_403_FORBIDDEN,
                      "You can only access information of users who interacted with your properties",
                      current_user.role, outcome.kind, NoToken, NoAccount)
        ELSE IF found.status = HTTP_404_NOT_FOUND
        THEN Response(accts, HTTP_200_OK, "", current_user.role, outcome.kind,
                      NoToken, Placeholder(user_id))
        ELSE Response(accts, HTTP_200_OK, "", current_user.role, outcome.kind,
                      NoToken, found.account)

get_user_by_id(accts, cred, user_id, outcome, t) ==
    LET dep == get_current_user(accts, cred.header, cred.cookie, t)
    IN  IF dep.status # 0 THEN Rejected(accts, dep)
        ELSE get_user_by_id_body(accts, dep.user, user_id, outcome)

\* update_user and update_property_owner are the same call
update_user(accts, cred, user_id, update_data, salt, t) ==
    LET dep == get_current_admin_user(accts, cred.header, cred.cookie, t)
    IN  IF dep.status # 0
        THEN Response(accts, dep.status, dep.detail, caller_role(accts, cred, t),
                      "not_called", NoToken, NoAccount)
        ELSE FromService(admin_update_user(accts, user_id, update_data, dep.user, salt),
                         HTTP_200_OK, dep.user.role)

\* delete_user and delete_property_owner are the same call; the controller
\* awaits the value admin_delete_user returns, and awaiting None raises
\* TypeError after the deletion has been committed
delete_user(accts, cred, user_id, t) ==
    LET dep == get_current_admin_user(accts, cred.header, cred.cookie, t)
        r == admin_delete_user(accts, user_id, dep.user)
    IN  IF dep.status # 0
        THEN Response(accts, dep.status, dep.detail, caller_role(accts, cred, t),
                      "not_called", NoToken, NoAccount)
        ELSE IF r.status # 0
        THEN FromService(r, HTTP_204_NO_CONTENT, dep.user.role)
        ELSE Response(r.accounts, HTTP_500_INTERNAL_SERVER_ERROR,
                      "Internal Server Error", dep.user.role, "not_called",
                      NoToken, NoAccount)

(***************************************************************************)
(* State machine.                                                          *)
(***************************************************************************)
\* the instants the clock is sampled at
Instants == {0, ACCESS_TOKEN_EXPIRE_MINUTES}

\* the account created by scripts/create_admin.py before the service starts
RootAdmin == Account(1, "root", "F1", "r@x", "P1", hash_password("pw1", 1), "ADMIN")

NoResp == [op |-> "none", status |-> 0, detail |-> "", role |-> "ANON",
           rel |-> "not_called"]

\* what is kept of a response
Kept(op, r) ==
    [op |-> op, status |-> r.status, detail |-> r.detail, role |-> r.role,
     rel |-> r.rel]

\* the client's cookie jar: the token of the access_token cookie, the instant
\* it was created at and the expires_delta it was created with
NoCookie == [tok |-> NoToken, t0 |-> 0, delta |-> NoDelta]

Init ==
    /\ accounts = {RootAdmin}
    /\ nextId = 2
    /\ now = 0
    /\ cookie = NoCookie
    /\ resp = NoResp
    /\ inflight = {}
    /\ webhooks = <<>>
    /\ lastSet = {[id |-> 1, password |-> "pw1"]}
    /\ pictures = {}

\* tokens the client can present: the one in its cookie jar, the same claims
\* signed with a foreign key, and a string that is no JWT
Presentable ==
    IF cookie = NoCookie THEN {MalformedToken}
    ELSE {cookie.tok, Forged(cookie.tok), MalformedToken}

\* header and cookie of a request
Credentials == [header : Presentable \cup {NoToken}, cookie : Presentable \cup {NoToken}]

\* a request that carries the token in the header or in the cookie, or no token
SingleCredentials ==
    [header : {NoToken}, cookie : Presentable \cup {NoToken}]
    \cup [header : Presentable, cookie : {NoToken}]

\* request bodies sent over HTTP
HttpRegisterData ==
    {[username |-> u, fullName |-> "F1", email |-> e, phoneNumber |-> "P1",
      password |-> "pw1"] :
        <<u, e>> \in {<<"ann", "a@x">>, <<"Ann", "b@x">>, <<"bob", "b@x">>,
                      <<"bob", "A@x">>}}

HttpUpdateProfileRequest ==
    {[fullName |-> f, phoneNumber |-> ph, email |-> e, currentPassword |-> c,
      newPassword |-> n] :
        <<f, ph, e, c, n>> \in
            {<<Absent, Absent, Absent, Absent, Absent>>,
             <<"F1", "P1", Absent, Absent, Absent>>,
             <<"F1", Absent, Absent, "pw2", Absent>>,
             <<Absent, Absent, "B@x", Absent, Absent>>,
             <<Absent, Absent, "B@x", "pw1", Absent>>,
             <<Absent, Absent, Absent, "pw1", "pw2">>}}

HttpUpdateUserRequest ==
    {[fullName |-> f, phoneNumber |-> ph, email |-> e, password |-> n] :
        <<f, ph, e, n>> \in {<<Absent, Absent, Absent, Absent>>,
                             <<"F1", "P1", Absent, Absent>>,
                             <<Absent, Absent, "B@x", Absent>>,
                             <<Absent, Absent, Absent, "pw2">>}}

\* the salt is drawn only when a password is hashed
SaltsFor(p) == IF p = Absent THEN {1} ELSE Salts

\* requests are handled one at a time: resp is the response on its way to the
\* client, and the next request starts once it has been delivered
Idle == resp = NoResp

Deliver ==
    /\ resp # NoResp
    /\ resp' = NoResp
    /\ UNCHANGED <<accounts, nextId, now, cookie, inflight, webhooks, lastSet, pictures>>

Tick ==
    /\ Idle
    /\ \E t \in Instants : t > now /\ now' = t
    /\ UNCHANGED <<accounts, nextId, cookie, resp, inflight, webhooks, lastSet, pictures>>

\* history of the plaintexts handed to hash_password: after a call that left
\* the store accts and ended with status, the password of account id was set
\* to p if p was supplied and the call succeeded; accounts no longer stored
\* are forgotten
Remembered(accts, status, id, p) ==
    LET set == p # Absent /\ status \in {0, HTTP_200_OK, HTTP_201_CREATED}
        upd == IF set
               THEN {e \in lastSet : e.id # id} \cup {[id |-> id, password |-> p]}
               ELSE lastSet
    IN  lastSet' = {e \in upd : \E a \in accts : a.id = e.id}

\* the store after a request that may have inserted the row with id nextId;
\* no more than MaxAccounts ids are handed out
Stored(r) ==
    /\ (\E a \in r.accounts : a.id = nextId) => nextId <= MaxAccounts
    /\ accounts' = r.accounts
    /\ nextId' = IF \E a \in r.accounts : a.id = nextId THEN nextId + 1 ELSE nextId

\* response.set_cookie on success
Login ==
    /\ Idle
    /\ \E login_data \in LoginRequest :
        LET r == login(accounts, login_data, now)
        IN  /\ cookie' = IF r.token # NoToken
                         THEN [tok |-> r.token, t0 |-> now, delta |-> NoDelta]
                         ELSE cookie
            /\ resp' = Kept("login", r)
    /\ UNCHANGED <<accounts, nextId, now, inflight, webhooks, lastSet, pictures>>

\* response.delete_cookie
Logout ==
    /\ Idle
    /\ cookie' = NoCookie
    /\ resp' = [op |-> "logout", status |-> HTTP_200_OK,
                detail |-> "Successfully logged out", role |-> "ANON",
                rel |-> "not_called"]
    /\ UNCHANGED <<accounts, nextId, now, inflight, webhooks, lastSet, pictures>>

RegisterUser ==
    /\ Idle
    /\ \E register_data \in HttpRegisterData, salt \in Salts :
        LET r == ctl_register_user(accounts, register_data, nextId, salt)
        IN  /\ Stored(r)
            /\ Remembered(r.accounts, r.status, nextId, register_data.password)
            /\ resp' = Kept("register_user", r)
    /\ UNCHANGED <<now, cookie, inflight, webhooks, pictures>>

RegisterPropertyOwner ==
    /\ Idle
    /\ \E register_data \in HttpRegisterData, salt \in Salts :
        LET r == ctl_register_property_owner(accounts, register_data, nextId, salt)
        IN  /\ Stored(r)
            /\ Remembered(r.accounts, r.status, nextId, register_data.password)
            /\ resp' = Kept("register_property_owner", r)
    /\ UNCHANGED <<now, cookie, inflight, webhooks, pictures>>

CreateAdmin ==
    /\ Idle
    /\ \E cred \in SingleCredentials, register_data \in HttpRegisterData, salt \in Salts :
        LET r == create_admin(accounts, cred, register_data, nextId, salt, now)
        IN  /\ Stored(r)
            /\ Remembered(r.accounts, r.status, nextId, register_data.password)
            /\ resp' = Kept("create_admin", r)
    /\ UNCHANGED <<now, cookie, inflight, webhooks, pictures>>

DeleteAdmin ==
    /\ Idle
    /\ \E cred \in SingleCredentials, admin_id \in TargetIds :
        LET r == ctl_delete_admin(accounts, cred, admin_id, now)
        IN  /\ accounts' = r.accounts
            /\ Remembered(r.accounts, r.status, 0, Absent)
            /\ resp' = Kept("delete_admin", r)
    /\ UNCHANGED <<nextId, now, cookie, inflight, webhooks, pictures>>

Me ==
    /\ Idle
    /\ \E cred \in Credentials :
        resp' = Kept("me", me(accounts, cred, now))
    /\ UNCHANGED <<accounts, nextId, now, cookie, inflight, webhooks, lastSet, pictures>>

UpdateProfile ==
    /\ Idle
    /\ \E cred \in SingleCredentials, update_data \in HttpUpdateProfileRequest :
        \E salt \in SaltsFor(update_data.newPassword) :
            LET r == ctl_update_profile(accounts, cred, update_data, salt, now)
            IN  /\ accounts' = r.accounts
                /\ Remembered(r.accounts, r.status,
                              get_current_user(accounts, cred.header, cred.cookie, now).user.id,
                              update_data.newPassword)
                /\ resp' = Kept("update_profile", r)
    /\ UNCHANGED <<nextId, now, cookie, inflight, webhooks, pictures>>

GetUserById ==
    /\ Idle
    /\ \E cred \in SingleCredentials, user_id \in TargetIds,
          outcome \in CollaboratorOutcomes :
        resp' = Kept("get_user_by_id", get_user_by_id(accounts, cred, user_id, outcome, now))
    /\ UNCHANGED <<accounts, nextId, now, cookie, inflight, webhooks, lastSet, pictures>>

UpdateUser ==
    /\ Idle
    /\ \E cred \in SingleCredentials, user_id \in TargetIds,
          update_data \in HttpUpdateUserRequest :
        \E salt \in SaltsFor(update_data.password) :
            LET r == update_user(accounts, cred, user_id, update_data, salt, now)
            IN  /\ accounts' = r.accounts
                /\ Remembered(r.accounts, r.status,
                              user_id,
                              update_data.password)
                /\ resp' = Kept("update_user", r)
    /\ UNCHANGED <<nextId, now, cookie, inflight, webhooks, pictures>>

DeleteUser ==
    /\ Idle
    /\ \E cred \in SingleCredentials, user_id \in TargetIds :
        LET r == delete_user(accounts, cred, user_id, now)
        IN  /\ accounts' = r.accounts
            /\ Remembered(r.accounts, r.status, 0, Absent)
            /\ resp' = Kept("delete_user", r)
    /\ UNCHANGED <<nextId, now, cookie, inflight, webhooks, pictures>>

Next ==
    \/ Tick
    \/ Login
    \/ Logout
    \/ RegisterUser
    \/ RegisterPropertyOwner
    \/ CreateAdmin
    \/ DeleteAdmin
    \/ Me
    \/ UpdateProfile
    \/ GetUserById
    \/ UpdateUser
    \/ DeleteUser
    \/ Deliver

Spec == Init /\ [][Next]_vars

(***************************************************************************)
(* The service methods called directly (SvcSpec).  The acting account is   *)
(* any stored account: the methods themselves do not look at its role.     *)
(***************************************************************************)
\* what is kept of the outcome r of a service method called by actor
KeptSvc(op, r, actor) ==
    [op |-> op, status |-> r.status, detail |-> r.detail, role |-> actor.role,
     rel |-> "not_called"]

SvcRegisterUser ==
    /\ Idle
    /\ \E register_data \in RegisterData, salt \in Salts :
        LET r == register_user(accounts, register_data, nextId, salt)
        IN  /\ Stored(r)
            /\ Remembered(r.accounts, r.status, nextId, register_data.password)
            /\ resp' = KeptSvc("register_user", r, NoAccount)
    /\ UNCHANGED <<now, cookie, inflight, webhooks, pictures>>

SvcRegisterPropertyOwner ==
    /\ Idle
    /\ \E register_data \in RegisterData, salt \in Salts :
        LET r == register_property_owner(accounts, register_data, nextId, salt)
        IN  /\ Stored(r)
            /\ Remembered(r.accounts, r.status, nextId, register_data.password)
            /\ resp' = KeptSvc("register_property_owner", r, NoAccount)
    /\ UNCHANGED <<now, cookie, inflight, webhooks, pictures>>

SvcRegisterAdmin ==
    /\ Idle
    /\ \E creator_admin \in accounts, register_data \in RegisterData, salt \in Salts :
        LET r == register_admin(accounts, register_data, creator_admin, nextId, salt)
        IN  /\ Stored(r)
            /\ Remembered(r.accounts, r.status, nextId, register_data.password)
            /\ resp' = KeptSvc("register_admin", r, creator_admin)
    /\ UNCHANGED <<now, cookie, inflight, webhooks, pictures>>

SvcDeleteAdmin ==
    /\ Idle
    /\ \E deleter_admin \in accounts, admin_id \in TargetIds :
        LET r == delete_admin(accounts, admin_id, deleter_admin)
        IN  /\ accounts' = r.accounts
            /\ Remembered(r.accounts, r.status, 0, Absent)
            /\ resp' = KeptSvc("delete_admin", r, deleter_admin)
    /\ UNCHANGED <<nextId, now, cookie, inflight, webhooks, pictures>>

SvcUpdateProfile ==
    /\ Idle
    /\ \E current_user \in accounts, update_data \in UpdateProfileRequest :
        \E salt \in SaltsFor(update_data.newPassword) :
            LET r == update_profile(accounts, current_user, update_data, salt)
            IN  /\ accounts' = r.accounts
                /\ Remembered(r.accounts, r.status,
                              current_user.id,
                              update_data.newPassword)
                /\ resp' = KeptSvc("update_profile", r, current_user)
    /\ UNCHANGED <<nextId, now, cookie, inflight, webhooks, pictures>>

SvcAdminUpdateUser ==
    /\ Idle
    /\ \E admin \in accounts, user_id \in TargetIds, update_data \in UpdateUserRequest :
        \E salt \in SaltsFor(update_data.password) :
            LET r == admin_update_user(accounts, user_id, update_data, admin, salt)
            IN  /\ accounts' = r.accounts
                /\ Remembered(r.accounts, r.status,
                              user_id,
                              update_data.password)
                /\ resp' = KeptSvc("admin_update_user", r, admin)
    /\ UNCHANGED <<nextId, now, cookie, inflight, webhooks, pictures>>

SvcAdminDeleteUser ==
    /\ Idle
    /\ \E admin \in accounts, user_id \in TargetIds :
        LET r == admin_delete_user(accounts, user_id, admin)
        IN  /\ accounts' = r.accounts
            /\ Remembered(r.accounts, r.status, 0, Absent)
            /\ resp' = KeptSvc("admin_delete_user", r, admin)
    /\ UNCHANGED <<nextId, now, cookie, inflight, webhooks, pictures>>

SvcUpdateAccount ==
    /\ Idle
    /\ \E account_id \in TargetIds, update_data \in UpdateAccountRequest :
        LET r == update_account(accounts, account_id, update_data)
        IN  /\ accounts' = r.accounts
            /\ Remembered(r.accounts, r.status, 0, Absent)
            /\ resp' = KeptSvc("update_account", r, NoAccount)
    /\ UNCHANGED <<nextId, now, cookie, inflight, webhooks, pictures>>

SvcDeleteAccount ==
    /\ Idle
    /\ \E account_id \in TargetIds :
        LET r == delete_account(accounts, account_id)
        IN  /\ accounts' = r.accounts
            /\ Remembered(r.accounts, r.status, 0, Absent)
            /\ resp' = KeptSvc("delete_account", r, NoAccount)
    /\ UNCHANGED <<nextId, now, cookie, inflight, webhooks, pictures>>

SvcChangeUserPassword ==
    /\ Idle
    /\ \E account_id \in TargetIds, password_data \in ChangePasswordRequest,
          salt \in Salts :
        LET r == change_user_password(accounts, account_id, password_data, salt)
        IN  /\ accounts' = r.accounts
            /\ Remembered(r.accounts, r.status,
                          account_id,
                          password_data.new_password)
            /\ resp' = KeptSvc("change_user_password", r, NoAccount)
    /\ UNCHANGED <<nextId, now, cookie, inflight, webhooks, pictures>>

SvcNext ==
    \/ SvcRegisterUser
    \/ SvcRegisterPropertyOwner
    \/ SvcRegisterAdmin
    \/ SvcDeleteAdmin
    \/ SvcUpdateProfile
    \/ SvcAdminUpdateUser
    \/ SvcAdminDeleteUser
    \/ SvcUpdateAccount
    \/ SvcDeleteAccount
    \/ SvcChangeUserPassword
    \/ Deliver

SvcSpec == Init /\ [][SvcNext]_vars

(***************************************************************************)
(* create_access_token and verify_token applied to bounded inputs          *)
(* (JwtSpec).  cookie holds the token under test.                          *)
(***************************************************************************)
\* claim sets handed to create_access_token: with and without a subject
TokenData == [sub : 0..1, username : {"root"}, role : {"ADMIN", "USER"}]

\* expires_delta: None, zero, positive, negative (minutes)
Deltas == {NoDelta} \cup {timedelta(m) : m \in {-1, 0, 1, 2}}

\* instants around the short and the default expiry
JwtInstants ==
    {0, 1, 2, 3} \cup
    {ACCESS_TOKEN_EXPIRE_MINUTES - 1, ACCESS_TOKEN_EXPIRE_MINUTES,
     ACCESS_TOKEN_EXPIRE_MINUTES + 1, ACCESS_TOKEN_EXPIRE_MINUTES + 2}

JwtCreate ==
    /\ Idle
    /\ \E data \in TokenData, expires_delta \in Deltas :
        cookie' = [tok |-> create_access_token(data, expires_delta, now),
                   t0 |-> now, delta |-> expires_delta]
    /\ UNCHANGED <<accounts, nextId, now, resp, inflight, webhooks, lastSet, pictures>>

JwtTick ==
    /\ Idle
    /\ \E t \in JwtInstants : t > now /\ now' = t
    /\ UNCHANGED <<accounts, nextId, cookie, resp, inflight, webhooks, lastSet, pictures>>

\* the payload verify_token returns, kept as a response: the role claim and
\* status 0 for a payload, 401 for None
JwtVerify ==
    /\ Idle
    /\ \E token \in Presentable :
        LET payload == verify_token(token, now)
        IN  resp' = [op |-> "verify_token",
                     status |-> IF payload = NoPayload THEN HTTP_401_UNAUTHORIZED ELSE 0,
                     detail |-> token.sig, role |-> payload.role,
                     rel |-> "not_called"]
    /\ UNCHANGED <<accounts, nextId, now, cookie, inflight, webhooks, lastSet, pictures>>

JwtNext ==
    \/ JwtCreate
    \/ JwtTick
    \/ JwtVerify
    \/ Deliver

JwtSpec == Init /\ [][JwtNext]_vars

(***************************************************************************)
(* POST /introspect (app/controllers/auth_controller.py,                   *)
(* app/dtos/auth_dto.py)                                                   *)
(***************************************************************************)
\* Field(..., min_length=10) of IntrospectRequest.token
MIN_TOKEN_LENGTH == 10

\* status of the answer to a body that fails validation
HTTP_422_UNPROCESSABLE_ENTITY == 422

\* characters of the encoded header {"alg": "HS256", "typ": "JWT"} that every
\* string returned by jwt.encode starts with
JWS_HEADER_LENGTH == 36

\* lengths of the strings that are not of the form jwt.encode produces
MalformedLengths == {0, MIN_TOKEN_LENGTH - 1, MIN_TOKEN_LENGTH, 18}

\* the bodies {"token": <string>}: the string as verify_token sees it and
\* the number of its characters (for a signed token, those of its header)
IntrospectRequest(jar) ==
    {[token |-> k, length |-> JWS_HEADER_LENGTH] : k \in {jar.tok, Forged(jar.tok)} \ {NoToken}}
    \cup {[token |-> MalformedToken, length |-> n] : n \in MalformedLengths}

IntrospectResponse(status, active, claims, reason) ==
    [status |-> status, active |-> active, claims |-> claims, reason |-> reason]

\* variant: an invalid token is answered with 401
introspect_rejecting(body, t) ==
    IF body.length < MIN_TOKEN_LENGTH
    THEN IntrospectResponse(HTTP_422_UNPROCESSABLE_ENTITY, FALSE, NoPayload,
                            "string_too_short")
    ELSE LET payload == verify_token(body.token, t)
         IN  IF payload = NoPayload
             THEN IntrospectResponse(HTTP_401_UNAUTHORIZED, FALSE, NoPayload,
                                     "invalid_or_expired")
             ELSE IntrospectResponse(HTTP_200_OK, TRUE, payload, "")

\* variant: a token is active only while its subject is a stored account
introspect_requiring_subject(body, t) ==
    IF body.length < MIN_TOKEN_LENGTH
    THEN IntrospectResponse(HTTP_422_UNPROCESSABLE_ENTITY, FALSE, NoPayload,
                            "string_too_short")
    ELSE LET payload == verify_token(body.token, t)
         IN  IF payload = NoPayload \/ get_by_id(accounts, payload.sub) = NoAccount
             THEN IntrospectResponse(HTTP_200_OK, FALSE, NoPayload,
                                     "invalid_or_expired")
             ELSE IntrospectResponse(HTTP_200_OK, TRUE, payload, "")

\* the request is validated against IntrospectRequest before the function
\* body runs
introspect(body, t) ==
    IF body.length < MIN_TOKEN_LENGTH
    THEN IntrospectResponse(HTTP_422_UNPROCESSABLE_ENTITY, FALSE, NoPayload,
                            "string_too_short")
    ELSE LET payload == verify_token(body.token, t)
         IN  IF payload = NoPayload
             THEN IntrospectResponse(HTTP_200_OK, FALSE, NoPayload,
                                     "invalid_or_expired")
             ELSE IntrospectResponse(HTTP_200_OK, TRUE, payload, "")

Introspect ==
    /\ Idle
    /\ \E body \in IntrospectRequest(cookie) :
        LET r == introspect(body, now)
        IN  resp' = [op |-> "introspect", status |-> r.status,
                     detail |-> IF r.active THEN "active" ELSE r.reason,
                     role |-> r.claims.role, rel |-> "not_called"]
    /\ UNCHANGED <<accounts, nextId, now, cookie, inflight, webhooks, lastSet, pictures>>

IntrospectNext ==
    \/ JwtCreate
    \/ JwtTick
    \/ Introspect
    \/ Deliver

IntrospectSpec == Init /\ [][IntrospectNext]_vars

(***************************************************************************)
(* A token while its subject logs out, changes password and is deleted.    *)
(***************************************************************************)
StatelessNext ==
    \/ Login
    \/ Logout
    \/ RegisterUser
    \/ SvcChangeUserPassword
    \/ SvcAdminDeleteUser
    \/ Introspect
    \/ Me
    \/ Tick
    \/ Deliver

StatelessSpec == Init /\ [][StatelessNext]_vars

(***************************************************************************)
(* Authentication of one client while the rest of the system moves         *)
(* (AuthSpec): the client registers, logs in, logs out and asks who it is; *)
(* meanwhile an administrator working from another session deletes         *)
(* accounts, and any other holder of SECRET_KEY creates tokens, so that    *)
(* the client may present a token of a deleted account or a signed token   *)
(* without subject.                                                        *)
(***************************************************************************)
AuthNext ==
    \/ Login
    \/ Logout
    \/ RegisterUser
    \/ Me
    \/ SvcAdminDeleteUser
    \/ JwtCreate
    \/ Tick
    \/ Deliver

AuthSpec == Init /\ [][AuthNext]_vars

(***************************************************************************)
(* Requests that carry an Authorization: Bearer header next to the cookie. *)
(***************************************************************************)
\* the tokens a header may carry: the token of the cookie, the token a login
\* of any stored account would be issued now, a forgery of it, a malformed
\* string, or none
HeaderTokens ==
    {NoToken, MalformedToken, cookie.tok}
    \cup {create_user_token(a, now) : a \in accounts}
    \cup {Forged(create_user_token(a, now)) : a \in accounts}

\* GET /me with a bearer header; the client sends its cookie along
MeWithHeader ==
    /\ Idle
    /\ \E header \in HeaderTokens :
        resp' = Kept("me", me(accounts, [header |-> header, cookie |-> cookie.tok], now))
    /\ UNCHANGED <<accounts, nextId, now, cookie, inflight, webhooks, lastSet, pictures>>

DepNext ==
    \/ Login
    \/ Logout
    \/ RegisterUser
    \/ MeWithHeader
    \/ Tick
    \/ Deliver

DepSpec == Init /\ [][DepNext]_vars

(***************************************************************************)
(* delete_admin run by several server processes on one database            *)
(* (RaceSpec).  Each request has its own session and nothing is locked:    *)
(* the guards read the committed store, and account_repo.delete commits    *)
(* in a later step.                                                        *)
(***************************************************************************)
\* the guards of delete_admin, called by an administrator
DeleteAdminCheck ==
    /\ \E deleter_admin \in {a \in accounts : is_admin(a)}, admin_id \in TargetIds :
        LET r == delete_admin(accounts, admin_id, deleter_admin)
        IN  IF r.status = 0
            THEN /\ inflight' = inflight \cup
                        {[deleter |-> deleter_admin.id,
                          target |-> get_by_id(accounts, admin_id)]}
                 /\ resp' = resp
            ELSE /\ inflight' = inflight
                 /\ resp' = KeptSvc("delete_admin", r, deleter_admin)
    /\ UNCHANGED <<accounts, nextId, now, cookie, webhooks, lastSet, pictures>>

\* variant: the guards are evaluated again in the transaction that deletes
DeleteAdminCommitRechecked ==
    /\ \E c \in inflight :
        LET deleter_admin == [c.target EXCEPT !.id = c.deleter]
            r == delete_admin(accounts, c.target.id, deleter_admin)
        IN  /\ accounts' = r.accounts
            /\ Remembered(r.accounts, r.status, 0, Absent)
            /\ inflight' = inflight \ {c}
            /\ resp' = [op |-> "delete_admin", status |-> r.status,
                        detail |-> r.detail, role |-> "ADMIN", rel |-> "not_called"]
    /\ UNCHANGED <<nextId, now, cookie, webhooks, pictures>>

\* account_repo.delete(target_admin): the DELETE and its commit
DeleteAdminCommit ==
    /\ \E c \in inflight :
        /\ accounts' = delete(accounts, c.target)
        /\ Remembered(delete(accounts, c.target), 0, 0, Absent)
        /\ inflight' = inflight \ {c}
        /\ resp' = [op |-> "delete_admin", status |-> 0, detail |-> "",
                    role |-> "ADMIN", rel |-> "not_called"]
    /\ UNCHANGED <<nextId, now, cookie, webhooks, pictures>>

RaceNext ==
    \/ SvcRegisterAdmin
    \/ DeleteAdminCheck
    \/ DeleteAdminCommit
    \/ Deliver

RaceSpec == Init /\ [][RaceNext]_vars

(***************************************************************************)
(* Updates with the session of the request (app/database/connection.py):   *)
(* update_profile and admin_update_user assign fullName and phoneNumber to *)
(* the Account object of the session before the email check; get_db closes *)
(* the session when the request ends.                                      *)
(***************************************************************************)
SessionFullNames == {"F2"}
SessionPhones == {"P2"}

\* bodies that supply fullName and/or phoneNumber
SessionUpdateProfileRequest ==
    {d \in [fullName : {Absent} \cup SessionFullNames,
            phoneNumber : {Absent} \cup SessionPhones,
            email : {Absent} \cup EmailInputs, currentPassword : {"pw1"},
            newPassword : {Absent}] :
        d.fullName # Absent \/ d.phoneNumber # Absent}

SessionUpdateUserRequest ==
    {d \in [fullName : {Absent} \cup SessionFullNames,
            phoneNumber : {Absent} \cup SessionPhones,
            email : {Absent} \cup EmailInputs, password : {Absent}] :
        d.fullName # Absent \/ d.phoneNumber # Absent}

\* the Account object of the session when the call ends: with fullName and
\* phoneNumber assigned but not committed if "Email already exists" was
\* raised, nothing pending otherwise
pending(r, target, update_data) ==
    IF r.status = HTTP_400_BAD_REQUEST /\ r.detail = "Email already exists"
    THEN LET u1 == IF update_data.fullName # Absent
                   THEN [target EXCEPT !.fullName = update_data.fullName]
                   ELSE target
         IN  IF update_data.phoneNumber # Absent
             THEN [u1 EXCEPT !.phoneNumber = update_data.phoneNumber]
             ELSE u1
    ELSE NoAccount

\* variant: closing the session writes its pending object
get_db_flushing(committed, dirty) ==
    IF dirty = NoAccount THEN committed ELSE update(committed, dirty)

\* get_db: db.close() in the finally clause; with autoflush=False and no
\* commit, the pending changes of the session's objects are discarded
get_db(committed, dirty) == committed

SessionUpdateProfile ==
    /\ Idle
    /\ \E current_user \in accounts, update_data \in SessionUpdateProfileRequest :
        LET r == update_profile(accounts, current_user, update_data, 1)
            after == get_db(r.accounts, pending(r, current_user, update_data))
        IN  /\ accounts' = after
            /\ Remembered(after, r.status, current_user.id, update_data.newPassword)
            /\ resp' = KeptSvc("update_profile", r, current_user)
    /\ UNCHANGED <<nextId, now, cookie, inflight, webhooks, pictures>>

SessionAdminUpdateUser ==
    /\ Idle
    /\ \E admin \in accounts, user_id \in TargetIds,
          update_data \in SessionUpdateUserRequest :
        LET r == admin_update_user(accounts, user_id, update_data, admin, 1)
            after == get_db(r.accounts,
                            pending(r, get_by_id(accounts, user_id), update_data))
        IN  /\ accounts' = after
            /\ Remembered(after, r.status, user_id, update_data.password)
            /\ resp' = KeptSvc("admin_update_user", r, admin)
    /\ UNCHANGED <<nextId, now, cookie, inflight, webhooks, pictures>>

SessionNext ==
    \/ SvcRegisterUser
    \/ SvcRegisterPropertyOwner
    \/ SessionUpdateProfile
    \/ SessionAdminUpdateUser
    \/ Deliver

SessionSpec == Init /\ [][SessionNext]_vars

(***************************************************************************)
(* DELETE /admin/delete-admin/{admin_id}: admin_id is the text of the path *)
(* segment (admin_id: str).  delete_admin compares it as a string with     *)
(* str(deleter_admin.id); the accounts table compares it as a uuid value.  *)
(***************************************************************************)
\* a text that spells a uuid: as str(uuid) writes it, or in another
\* spelling of the same value (upper-case digits)
Spellings == {"canonical", "upper"}

PathIds == [uuid : TargetIds, spelling : Spellings]

\* str(account.id)
str(id) == [uuid |-> id, spelling |-> "canonical"]

\* Account.id == account_id with account_id a text: equality of uuid values
get_by_id_text(accts, account_id) == get_by_id(accts, account_id.uuid)

delete_admin_path(accts, admin_id, deleter_admin) ==
    IF str(deleter_admin.id) = admin_id
    THEN HTTPException(accts, HTTP_400_BAD_REQUEST,
                       "Cannot delete your own admin account")
    ELSE LET target_admin == get_by_id_text(accts, admin_id)
         IN  IF target_admin = NoAccount
             THEN HTTPException(accts, HTTP_404_NOT_FOUND, "Admin account not found")
             ELSE IF ~is_admin(target_admin)
             THEN HTTPException(accts, HTTP_400_BAD_REQUEST,
                                "Target account is not an admin")
             ELSE IF count_admins(accts) <= 1
             THEN HTTPException(accts, HTTP_400_BAD_REQUEST,
                                "Cannot delete the last admin account in the system")
             ELSE Returned(delete(accts, target_admin), NoAccount)

ctl_delete_admin_path(accts, cred, admin_id, t) ==
    LET dep == get_current_admin_user(accts, cred.header, cred.cookie, t)
    IN  IF dep.status # 0
        THEN Response(accts, dep.status, dep.detail, caller_role(accts, cred, t),
                      "not_called", NoToken, NoAccount)
        ELSE FromService(delete_admin_path(accts, admin_id, dep.user),
                         HTTP_204_NO_CONTENT, dep.user.role)

DeleteAdminByPath ==
    /\ Idle
    /\ \E cred \in SingleCredentials, admin_id \in PathIds :
        LET r == ctl_delete_admin_path(accounts, cred, admin_id, now)
        IN  /\ accounts' = r.accounts
            /\ Remembered(r.accounts, r.status, 0, Absent)
            /\ resp' = Kept("delete_admin", r)
    /\ UNCHANGED <<nextId, now, cookie, inflight, webhooks, pictures>>

PathNext ==
    \/ Login
    \/ Logout
    \/ CreateAdmin
    \/ RegisterUser
    \/ DeleteAdminByPath
    \/ Deliver

PathSpec == Init /\ [][PathNext]_vars

(***************************************************************************)
(* register_user in concurrent sessions: the existence checks of one call  *)
(* and its INSERT are separate statements, and the accounts table has a    *)
(* unique index on username and on email (app/models/account.py).          *)
(***************************************************************************)
\* username_exists and email_exists of register_user
RegisterUserCheck ==
    /\ \E register_data \in HttpRegisterData, salt \in Salts :
        LET r == register_user(accounts, register_data, nextId, salt)
        IN  IF r.status = 0
            THEN /\ inflight' = inflight \cup {[data |-> register_data, salt |-> salt]}
                 /\ resp' = resp
            ELSE /\ inflight' = inflight
                 /\ resp' = Kept("register_user", FromService(r, HTTP_201_CREATED, "ANON"))
    /\ UNCHANGED <<accounts, nextId, now, cookie, webhooks, lastSet, pictures>>

\* account_repo.create(new_user): the INSERT and its commit; the unique
\* indexes make the commit raise IntegrityError, which no handler catches
RegisterUserCommit ==
    /\ \E c \in inflight :
        LET new_user == Account(nextId, lower(c.data.username), c.data.fullName,
                                lower(c.data.email), c.data.phoneNumber,
                                hash_password(c.data.password, c.salt), "USER")
            duplicate == \E a \in accounts : \/ a.username = new_user.username
                                             \/ a.email = new_user.email
            r == IF duplicate
                 THEN HTTPException(accounts, HTTP_500_INTERNAL_SERVER_ERROR,
                                    "IntegrityError")
                 ELSE Returned(create(accounts, new_user), new_user)
        IN  /\ Stored(r)
            /\ Remembered(r.accounts, r.status, nextId, c.data.password)
            /\ inflight' = inflight \ {c}
            /\ resp' = Kept("register_user", FromService(r, HTTP_201_CREATED, "ANON"))
    /\ UNCHANGED <<now, cookie, webhooks, pictures>>

RegRaceNext ==
    \/ RegisterUserCheck
    \/ RegisterUserCommit
    \/ Deliver

RegRaceSpec == Init /\ [][RegRaceNext]_vars

(***************************************************************************)
(* Logins between the operations that set a password.                      *)
(***************************************************************************)
PwNext ==
    \/ SvcRegisterUser
    \/ SvcUpdateProfile
    \/ SvcAdminUpdateUser
    \/ SvcChangeUserPassword
    \/ Login
    \/ Deliver

PwSpec == Init /\ [][PwNext]_vars

(***************************************************************************)
(* app/services/webhook_service.py                                         *)
(***************************************************************************)
WEBHOOK_URL ==
    "https://sexto-andar-api-3ef30ad16a1f.herokuapp.com/api/internal/user-deleted-webhook"

INTERNAL_API_SECRET == "your-internal-api-secret-placeholder"

\* what becomes of client.post and of the lines after it:
\*   "2xx", "non_2xx"   a response arrived with such a status code
\*   "RequestError"     httpx.RequestError: connection error, timeout
\*   "Exception"        any other exception raised inside the try block
WebhookOutcomes == {"2xx", "non_2xx", "RequestError", "Exception"}

\* the exception raised inside the try block, "none" if it runs to its end;
\* raise_for_status raises httpx.HTTPStatusError for a non-2xx response
WebhookTry(outcome) ==
    CASE outcome = "2xx" -> "none"
      [] outcome = "non_2xx" -> "HTTPStatusError"
      [] outcome = "RequestError" -> "RequestError"
      [] OTHER -> "Exception"

\* the result of a call: whether an exception left the function, the log
\* levels written, and whether the receiver got the POST
WebhookResult(raised, logged, posted) ==
    [raised |-> raised, logged |-> logged, posted |-> posted]

\* variant: without the handler `except Exception`
send_user_deleted_webhook_no_catch_all(user_id, outcome) ==
    IF WEBHOOK_URL = "" \/ INTERNAL_API_SECRET = ""
    THEN WebhookResult(FALSE, "warning", FALSE)
    ELSE LET e == WebhookTry(outcome)
             posted == outcome \in {"2xx", "non_2xx"}
         IN  CASE e = "none" -> WebhookResult(FALSE, "info", posted)
               [] e = "RequestError" -> WebhookResult(FALSE, "critical", posted)
               [] OTHER -> WebhookResult(TRUE, IF outcome = "non_2xx" THEN "error"
                                               ELSE "", posted)

send_user_deleted_webhook(user_id, outcome) ==
    IF WEBHOOK_URL = "" \/ INTERNAL_API_SECRET = ""
    THEN WebhookResult(FALSE, "warning", FALSE)
    ELSE LET e == WebhookTry(outcome)
             posted == outcome \in {"2xx", "non_2xx"}
         IN  CASE e = "none" -> WebhookResult(FALSE, "info", posted)
               [] e = "RequestError" -> WebhookResult(FALSE, "critical", posted)
               [] OTHER -> WebhookResult(FALSE, IF outcome = "non_2xx"
                                                THEN "error, critical"
                                                ELSE "critical", posted)

\* a call of send_user_deleted_webhook: the function holds no database
\* session; an exception leaving it would end the calling request with 500
SendUserDeletedWebhook ==
    /\ Idle
    /\ \E user_id \in TargetIds, outcome \in WebhookOutcomes :
        LET r == send_user_deleted_webhook(user_id, outcome)
        IN  /\ r.posted => Len(webhooks) < MaxWebhooks
            /\ webhooks' = IF r.posted THEN Append(webhooks, user_id) ELSE webhooks
            /\ resp' = [op |-> "send_user_deleted_webhook",
                        status |-> IF r.raised THEN HTTP_500_INTERNAL_SERVER_ERROR
                                   ELSE 0,
                        detail |-> r.logged, role |-> "NONE", rel |-> "not_called"]
    /\ UNCHANGED <<accounts, nextId, now, cookie, inflight, lastSet, pictures>>

HookNext ==
    \/ SvcRegisterUser
    \/ SvcAdminDeleteUser
    \/ SendUserDeletedWebhook
    \/ Deliver

HookSpec == Init /\ [][HookNext]_vars

(***************************************************************************)
(* Field rules: app/dtos/auth_dto.py (RegisterUserRequest) and the         *)
(* @validates methods of app/models/account.py.                            *)
(***************************************************************************)
\* the characters of the strings used as username and phone number
Chars(s) ==
    CASE s = "ann" -> <<"a", "n", "n">>
      [] s = "bob" -> <<"b", "o", "b">>
      [] s = "an" -> <<"a", "n">>
      [] s = "a-n" -> <<"a", "-", "n">>
      [] s = "b_9" -> <<"b", "_", "9">>
      [] s = "a51" -> [i \in 1..51 |-> "a"]
      [] s = "1199998888" -> <<"1", "1", "9", "9", "9", "9", "8", "8", "8", "8">>
      [] s = "119999888" -> <<"1", "1", "9", "9", "9", "9", "8", "8", "8">>
      [] s = "(11) 9999-8888" ->
            <<"(", "1", "1", ")", " ", "9", "9", "9", "9", "-", "8", "8", "8", "8">>
      [] s = "(11) 999-888" ->
            <<"(", "1", "1", ")", " ", "9", "9", "9", "-", "8", "8", "8">>
      [] s = "1234567890123456" -> [i \in 1..16 |-> "1"]
      [] OTHER -> <<>>

FieldUsernames == {"ann", "bob", "an", "a-n", "b_9", "a51"}

FieldPhones ==
    {"1199998888", "119999888", "(11) 9999-8888", "(11) 999-888", "1234567890123456"}

\* [a-zA-Z0-9_]
WordChars == {"a", "b", "n", "o", "_", "1", "8", "9"}

\* \d
Digits == {"1", "8", "9"}

FieldRegisterData ==
    {[username |-> u, fullName |-> "F1", email |-> e, phoneNumber |-> ph,
      password |-> "pw1"] :
        u \in FieldUsernames, e \in {"a@x", "b@x"}, ph \in FieldPhones}

\* Field(..., min_length=3, max_length=50) of username and
\* Field(..., min_length=10, max_length=20) of phoneNumber
RegisterUserRequest_accepts(body) ==
    /\ Len(Chars(body.username)) >= 3 /\ Len(Chars(body.username)) <= 50
    /\ Len(Chars(body.phoneNumber)) >= 10 /\ Len(Chars(body.phoneNumber)) <= 20

\* TRUE when validate_username returns, FALSE when it raises ValueError
validate_username(username) ==
    LET cs == Chars(username)
    IN  /\ Len(cs) > 0
        /\ ~(Len(cs) < 3 \/ Len(cs) > 50)
        /\ \A i \in 1..Len(cs) : cs[i] \in WordChars

\* TRUE when validate_phone returns, FALSE when it raises ValueError
validate_phone(phone) ==
    LET cs == Chars(phone)
        clean_phone == {i \in 1..Len(cs) : cs[i] \in Digits}
    IN  /\ Len(cs) > 0
        /\ ~(Cardinality(clean_phone) < 10 \/ Cardinality(clean_phone) > 15)

\* POST /register/user from the body on: 422 from the request DTO; then the
\* service, where Account(...) runs the validators after both existence
\* checks and hash_password, and a ValueError reaches no handler (500)
post_register_user(accts, body, newId, salt) ==
    IF ~RegisterUserRequest_accepts(body)
    THEN [accounts |-> accts, status |-> HTTP_422_UNPROCESSABLE_ENTITY,
          detail |-> "validation", stage |-> "dto"]
    ELSE LET r == ctl_register_user(accts, body, newId, salt)
         IN  IF r.status # HTTP_201_CREATED
             THEN [accounts |-> accts, status |-> r.status, detail |-> r.detail,
                   stage |-> "existence checks"]
             ELSE IF ~(validate_username(lower(body.username))
                       /\ validate_phone(body.phoneNumber))
             THEN [accounts |-> accts, status |-> HTTP_500_INTERNAL_SERVER_ERROR,
                   detail |-> "ValueError", stage |-> "Account validators"]
             ELSE [accounts |-> r.accounts, status |-> r.status, detail |-> r.detail,
                   stage |-> "created"]

PostRegisterUser ==
    /\ Idle
    /\ \E body \in FieldRegisterData, salt \in Salts :
        LET r == post_register_user(accounts, body, nextId, salt)
        IN  /\ Stored(r)
            /\ Remembered(r.accounts, r.status, nextId, body.password)
            /\ resp' = [op |-> "register_user", status |-> r.status,
                        detail |-> r.detail, role |-> "ANON", rel |-> r.stage]
    /\ UNCHANGED <<now, cookie, inflight, webhooks, pictures>>

FieldNext ==
    \/ PostRegisterUser
    \/ SvcDeleteAccount
    \/ Deliver

FieldSpec == Init /\ [][FieldNext]_vars

(***************************************************************************)
(* Properties.                                                             *)
(***************************************************************************)

\* C1: under SvcSpec, whatever sequence of register, update, change-password
\* and delete service operations has run from a store holding an ADMIN
\* account, the store holds at least one ADMIN account.
C1_AdminAccountRemains == count_admins(accounts) >= 1

\* an administrator has just been deleted, leaving a single one
C1_Witness ==
    /\ resp.op = "delete_admin"
    /\ resp.status = 0
    /\ count_admins(accounts) = 1

\* C2: a request whose caller does not resolve to an ADMIN account does not
\* increase the number of ADMIN accounts, adds no ADMIN account and changes
\* the role of no stored account;
\* register_user stores role USER and register_property_owner stores role
\* PROPERTY_OWNER; and an admin-only operation called by a USER or a
\* PROPERTY_OWNER answers 403 and leaves the store as it was.
AdminOnlyOps == {"create_admin", "delete_admin", "update_user", "delete_user"}

C2_Step ==
    (resp' # NoResp /\ resp'.role # "ADMIN") =>
        /\ count_admins(accounts') <= count_admins(accounts)
        /\ \A b \in accounts' :
              b.role = "ADMIN" => \E a \in accounts : a.id = b.id /\ a.role = "ADMIN"
        /\ \A a \in accounts : \A b \in accounts' : a.id = b.id => b.role = a.role
        /\ resp'.op = "register_user" =>
              \A b \in accounts' \ accounts : b.role = "USER"
        /\ resp'.op = "register_property_owner" =>
              \A b \in accounts' \ accounts : b.role = "PROPERTY_OWNER"
        /\ (resp'.op \in AdminOnlyOps /\ resp'.role \in {"USER", "PROPERTY_OWNER"}) =>
              (resp'.status = HTTP_403_FORBIDDEN /\ accounts' = accounts)

C2_NoPrivilegeEscalation == [][C2_Step]_vars

\* a logged-in USER has just been refused the creation of an administrator
C2_Witness ==
    /\ resp.op = "create_admin"
    /\ resp.role = "USER"
    /\ resp.status = HTTP_403_FORBIDDEN

\* C3: under SvcSpec, no two stored accounts have usernames that are equal
\* when compared case-insensitively, and no two have emails that are equal
\* when compared case-insensitively.
C3_UniqueIgnoringCase ==
    \A a \in accounts : \A b \in accounts :
        a.id # b.id =>
            /\ lower(a.username) # lower(b.username)
            /\ lower(a.email) # lower(b.email)

\* an email change that collides with another account has just been refused
\* in a full store
C3_Witness ==
    /\ Cardinality(accounts) = MaxAccounts
    /\ resp.op \in {"update_profile", "admin_update_user", "update_account"}
    /\ resp.status = HTTP_400_BAD_REQUEST
    /\ resp.detail = "Email already exists"

\* C4: whenever a request can start, a registration of a user, a property
\* owner or an administrator whose username or email equals, ignoring case,
\* that of a stored account fails with 400 and leaves the store unchanged.
Conflicts(accts, register_data) ==
    \E a \in accts : \/ lower(a.username) = lower(register_data.username)
                     \/ lower(a.email) = lower(register_data.email)

C4_DuplicateRegistrationRejected ==
    Idle => \A register_data \in RegisterData : \A salt \in Salts :
        Conflicts(accounts, register_data) =>
            /\ \A r \in {register_user(accounts, register_data, nextId, salt),
                         register_property_owner(accounts, register_data, nextId, salt)} :
                  r.status = HTTP_400_BAD_REQUEST /\ r.accounts = accounts
            /\ \A creator_admin \in accounts :
                  LET r == register_admin(accounts, register_data, creator_admin,
                                          nextId, salt)
                  IN  r.status = HTTP_400_BAD_REQUEST /\ r.accounts = accounts

\* a registration repeating a stored username has just been refused
C4_Witness ==
    /\ resp.op \in {"register_user", "register_property_owner", "register_admin"}
    /\ resp.status = HTTP_400_BAD_REQUEST
    /\ resp.detail = "Username already exists"
    /\ Cardinality(accounts) >= 2

\* C5: whenever a request can start, login succeeds exactly when the
\* lowercased username is that of a stored account and the password
\* verifies against its stored hash, and then answers with that account;
\* every failing login, whether the username is unknown or the password is
\* wrong, gets one and the same response, 401 "Incorrect username or
\* password".
LoginFailure ==
    Response(accounts, HTTP_401_UNAUTHORIZED, "Incorrect username or password",
             "ANON", "not_called", NoToken, NoAccount)

C5_LoginUniformFailure ==
    Idle => \A login_data \in LoginRequest :
        LET r == login(accounts, login_data, now)
            matching == {a \in accounts :
                            /\ a.username = lower(login_data.username)
                            /\ verify_password(login_data.password, a.password)}
        IN  /\ r.status = HTTP_200_OK <=> matching # {}
            /\ r.status = HTTP_200_OK => r.account \in matching
            /\ r.status # HTTP_200_OK => r = LoginFailure

\* a login has just failed while a second account is stored
C5_Witness ==
    /\ resp.op = "login"
    /\ resp.status = HTTP_401_UNAUTHORIZED
    /\ resp.detail = "Incorrect username or password"
    /\ Cardinality(accounts) >= 2

\* C6: a token created at instant t0 with lifetime ttl (30 minutes when none
\* is given) verifies to exactly its claims plus exp = t0 + ttl at every
\* instant before t0 + ttl, and to None at every instant after t0 + ttl; the
\* token signed with another key and a malformed string verify to None.
C6_TokenLifetime ==
    cookie # NoCookie =>
        LET ttl == IF cookie.delta.given THEN cookie.delta.minutes
                   ELSE ACCESS_TOKEN_EXPIRE_MINUTES
            expAt == cookie.t0 + ttl
        IN  /\ now < expAt =>
                  verify_token(cookie.tok, now) =
                      [none |-> FALSE, sub |-> cookie.tok.sub,
                       username |-> cookie.tok.username, role |-> cookie.tok.role,
                       exp |-> expAt]
            /\ now > expAt => verify_token(cookie.tok, now) = NoPayload
            /\ verify_token(Forged(cookie.tok), now) = NoPayload
            /\ verify_token(MalformedToken, now) = NoPayload

Unreachable(outcome) == outcome.kind # "response"

C9_RelationFailsClosed ==
    /\ \A outcome \in CollaboratorOutcomes :
          LET v == check_user_property_relation(outcome)
          IN  /\ ~v.raised
              /\ v.value <=> /\ outcome.kind = "response"
                             /\ outcome.status_code = HTTP_200_OK
                             /\ outcome.body = "true"
    /\ Idle => \A cred \in SingleCredentials : \A user_id \in TargetIds :
          \A outcome \in CollaboratorOutcomes :
              LET dep == get_current_user(accounts, cred.header, cred.cookie, now)
              IN  (/\ dep.status = 0
                   /\ dep.user.role = "PROPERTY_OWNER"
                   /\ dep.user.id # user_id
                   /\ Unreachable(outcome)) =>
                      get_user_by_id(accounts, cred, user_id, outcome, now).status
                          = HTTP_403_FORBIDDEN

\* a property owner has just been forbidden after the call to the
\* collaborator timed out
C9_Witness ==
    /\ resp.op = "get_user_by_id"
    /\ resp.role = "PROPERTY_OWNER"
    /\ resp.status = HTTP_403_FORBIDDEN
    /\ resp.rel = "timeout"

\* C10 as stated: whenever a request can start and the store holds exactly
\* one ADMIN account, every delete_admin call fails with 400, whatever the
\* caller and whatever the target id, including an id that matches no
\* account, and leaves the store unchanged.
C10_LastAdminAlways400 ==
    (Idle /\ count_admins(accounts) = 1) =>
        \A deleter_admin \in accounts : \A admin_id \in TargetIds :
            LET r == delete_admin(accounts, admin_id, deleter_admin)
            IN  r.status = HTTP_400_BAD_REQUEST /\ r.accounts = accounts

\* C10 amended: whenever a request can start and the store holds exactly one
\* ADMIN account, every delete_admin call fails and leaves the store
\* unchanged, whatever the caller and whatever the target id: with 404 when
\* the target id matches no account, with 400 otherwise.
C10_LastAdminNeverDeleted ==
    (Idle /\ count_admins(accounts) = 1) =>
        \A deleter_admin \in accounts : \A admin_id \in TargetIds :
            LET r == delete_admin(accounts, admin_id, deleter_admin)
            IN  /\ r.accounts = accounts
                /\ r.status = IF \E a \in accounts : a.id = admin_id
                              THEN HTTP_400_BAD_REQUEST
                              ELSE HTTP_404_NOT_FOUND

\* the deletion of the only administrator has just been refused by the
\* last-admin guard
C10_Witness ==
    /\ resp.op = "delete_admin"
    /\ resp.status = HTTP_400_BAD_REQUEST
    /\ resp.detail = "Cannot delete the last admin account in the system"
    /\ count_admins(accounts) = 1

C12_Step ==
    \A c \in inflight :
        (inflight' = inflight \ {c}) =>
            /\ accounts' = {a \in accounts : a.id # c.target.id}
            /\ resp'.status = 0

C12_DeletionNotAtomicWithGuard == [][C12_Step]_vars

\* the second of two crossed deletions has just committed: no ADMIN account
\* is stored
C12_Witness ==
    /\ resp.op = "delete_admin"
    /\ resp.status = 0
    /\ count_admins(accounts) = 0

\* C13: whenever a call can start, update_profile fails with 400 "No fields
\* to update" when none of fullName, phoneNumber, email and newPassword is
\* supplied; otherwise with 400 when email or newPassword is supplied without
\* currentPassword; otherwise with 401 when a supplied currentPassword does
\* not verify against the stored hash, also when only fullName or
\* phoneNumber is to change.  In the three cases the store is unchanged.
C13_UpdateProfileGuards ==
    Idle => \A current_user \in accounts : \A update_data \in UpdateProfileRequest :
        \A salt \in SaltsFor(update_data.newPassword) :
            LET r == update_profile(accounts, current_user, update_data, salt)
                nothing == /\ update_data.fullName = Absent
                           /\ update_data.phoneNumber = Absent
                           /\ update_data.email = Absent
                           /\ update_data.newPassword = Absent
                needsPassword == \/ update_data.email # Absent
                                 \/ update_data.newPassword # Absent
                failed(code, detail) ==
                    r.status = code /\ r.detail = detail /\ r.accounts = accounts
            IN  IF nothing
                THEN failed(HTTP_400_BAD_REQUEST, "No fields to update")
                ELSE IF needsPassword /\ update_data.currentPassword = Absent
                THEN failed(HTTP_400_BAD_REQUEST,
                            "Current password is required to change email or password")
                ELSE (/\ update_data.currentPassword # Absent
                      /\ ~verify_password(update_data.currentPassword,
                                          current_user.password))
                     => failed(HTTP_401_UNAUTHORIZED, "Current password is incorrect")

\* an update has just been refused because the current password it carried
\* does not verify
C13_Witness ==
    /\ resp.op = "update_profile"
    /\ resp.status = HTTP_401_UNAUTHORIZED
    /\ resp.detail = "Current password is incorrect"

\* C14: under PwSpec, at any point between registrations, profile updates,
\* administrator updates, password changes and logins, a login with username
\* u and password p succeeds exactly when an account named u (lowercased) is
\* stored and p is the password most recently set for it.
C14_LoginMatchesLastSetPassword ==
    Idle => \A login_data \in LoginRequest :
        (login(accounts, login_data, now).status = HTTP_200_OK)
        <=> \E a \in accounts :
                /\ a.username = lower(login_data.username)
                /\ [id |-> a.id, password |-> login_data.password] \in lastSet

\* the first account has just logged in with a password set after its
\* creation, which replaced "pw1"
C14_Witness ==
    /\ resp.op = "login"
    /\ resp.status = HTTP_200_OK
    /\ cookie.tok.sub = 1
    /\ [id |-> 1, password |-> "pw2"] \in lastSet
    /\ login(accounts, [username |-> "root", password |-> "pw1"], now).status
           = HTTP_401_UNAUTHORIZED

\* C15: under SvcSpec, admin_delete_user answers 400 and delete_account
\* answers 403 for a target that is an ADMIN account, both leaving the store
\* as it was; for a stored target that is not an ADMIN both remove exactly
\* that row, so that get_by_id of its id finds nothing; and every step that
\* removes an ADMIN account from the store is a delete_admin.
C15_Guards ==
    Idle => \A user_id \in TargetIds : \A admin \in accounts :
        LET target == get_by_id(accounts, user_id)
            r1 == admin_delete_user(accounts, user_id, admin)
            r2 == delete_account(accounts, user_id)
        IN  /\ (target # NoAccount /\ is_admin(target)) =>
                /\ r1.status = HTTP_400_BAD_REQUEST /\ r1.accounts = accounts
                /\ r2.status = HTTP_403_FORBIDDEN /\ r2.accounts = accounts
            /\ (target # NoAccount /\ ~is_admin(target)) =>
                /\ r1.status = 0 /\ r1.accounts = accounts \ {target}
                /\ r2.status = 0 /\ r2.accounts = accounts \ {target}
                /\ get_by_id(r1.accounts, user_id) = NoAccount
                /\ get_by_id(r2.accounts, user_id) = NoAccount

C15_Step ==
    (\E a \in accounts : is_admin(a) /\ \A b \in accounts' : b.id # a.id)
        => resp'.op = "delete_admin"

C15_AdminRemovedOnlyByDeleteAdmin == [](C15_Guards) /\ [][C15_Step]_vars

\* delete_account has just removed the second account, which was not an
\* ADMIN; the first, an ADMIN, is still stored
C15_Witness ==
    /\ resp.op = "delete_account"
    /\ resp.status = 0
    /\ nextId > 2
    /\ get_by_id(accounts, 2) = NoAccount
    /\ \E a \in accounts : is_admin(a)

\* C16: under SvcSpec, an admin_delete_user that removes an account posts
\* the id of that account to the user-deleted webhook exactly once, and an
\* admin_delete_user that is rejected posts nothing.
C16_Step ==
    resp'.op = "admin_delete_user" =>
        IF resp'.status = 0
        THEN \E a \in accounts \ accounts' : webhooks' = Append(webhooks, a.id)
        ELSE webhooks' = webhooks

C16_WebhookOncePerDeletion == [][C16_Step]_vars

\* C17: under HookSpec, no call of send_user_deleted_webhook lets an
\* exception out, whether the POST ends in a connection error or timeout, a
\* non-2xx response or any other exception: the call returns, the failure is
\* logged, and the accounts table, with the deletions committed before the
\* call, is as it was.
C17_Step ==
    resp'.op = "send_user_deleted_webhook" =>
        /\ resp'.status = 0
        /\ accounts' = accounts
        /\ (webhooks' = webhooks => resp'.detail = "critical")

C17_Returns ==
    \A user_id \in TargetIds, outcome \in WebhookOutcomes :
        LET r == send_user_deleted_webhook(user_id, outcome)
        IN  /\ ~r.raised
            /\ outcome # "2xx" => r.logged \in {"critical", "error, critical"}

C17_WebhookNeverRaises == [](C17_Returns) /\ [][C17_Step]_vars

\* the webhook call for the second account, deleted before, has just ended
\* with a non-2xx response, logged and swallowed
C17_Witness ==
    /\ resp.op = "send_user_deleted_webhook"
    /\ resp.detail = "error, critical"
    /\ nextId > 2
    /\ get_by_id(accounts, 2) = NoAccount
    /\ Len(webhooks) > 0
    /\ webhooks[Len(webhooks)] = 2

\* C18: under SvcSpec, admin_update_user rejects a target that is an ADMIN
\* account and leaves the store, that account's password included, as it
\* was; for a stored target that is not an ADMIN, a call that passes the
\* field and email checks sets the supplied fields, no current password
\* being part of the request.
C18_AdminUpdateLeavesAdmins ==
    Idle => \A admin \in accounts, user_id \in TargetIds :
        \A update_data \in UpdateUserRequest :
            \A salt \in SaltsFor(update_data.password) :
                LET target == get_by_id(accounts, user_id)
                    r == admin_update_user(accounts, user_id, update_data, admin, salt)
                IN  /\ (target # NoAccount /\ is_admin(target)) =>
                        /\ r.status >= HTTP_400_BAD_REQUEST
                        /\ r.accounts = accounts
                    /\ (target # NoAccount /\ ~is_admin(target) /\ r.status = 0) =>
                        /\ update_data.fullName # Absent
                             => r.account.fullName = update_data.fullName
                        /\ update_data.phoneNumber # Absent
                             => r.account.phoneNumber = update_data.phoneNumber
                        /\ update_data.email # Absent
                             => r.account.email = lower(update_data.email)
                        /\ update_data.password # Absent
                             => verify_password(update_data.password, r.account.password)

\* C19 as stated: under IntrospectSpec, introspect answers every body that
\* carries a token string, whatever its length, with status 200: active
\* with the claims of verify_token exactly when verify_token accepts the
\* string, and otherwise not active with a reason.
C19_IntrospectAlways200 ==
    Idle => \A body \in IntrospectRequest(cookie) :
        LET r == introspect(body, now)
            payload == verify_token(body.token, now)
        IN  /\ r.status = HTTP_200_OK
            /\ r.active <=> payload # NoPayload
            /\ r.active => r.claims = payload
            /\ ~r.active => r.reason # ""

\* C19 amended: under IntrospectSpec, introspect answers every body whose
\* token string has at least 10 characters with status 200: active with the
\* claims of verify_token exactly when verify_token accepts the string, and
\* otherwise not active with reason "invalid_or_expired"; a body whose token
\* string is shorter is answered with 422 and is never reported active.
C19_Introspect200FromTenCharacters ==
    Idle => \A body \in IntrospectRequest(cookie) :
        LET r == introspect(body, now)
            payload == verify_token(body.token, now)
        IN  IF body.length >= MIN_TOKEN_LENGTH
            THEN /\ r.status = HTTP_200_OK
                 /\ r.active <=> payload # NoPayload
                 /\ r.active => r.claims = payload
                 /\ ~r.active => r.reason = "invalid_or_expired"
            ELSE /\ r.status = HTTP_422_UNPROCESSABLE_ENTITY
                 /\ ~r.active

\* an issued token that has expired meanwhile has just been reported as not
\* active, with status 200
C19_Witness ==
    /\ resp.op = "introspect"
    /\ resp.status = HTTP_200_OK
    /\ resp.detail = "invalid_or_expired"
    /\ cookie.tok.sig = "ok"
    /\ cookie.tok.exp > cookie.t0
    /\ now >= cookie.tok.exp

\* C20: under SvcSpec, whatever registrations, profile updates,
\* administrator updates and password changes have run, the password field
\* of every stored account is an output of hash_password and is not a
\* submitted plaintext stored as it came.
C20_PasswordsAreHashes ==
    \A a \in accounts :
        /\ \E p \in Passwords, salt \in Salts : a.password = hash_password(p, salt)
        /\ \A p \in Passwords : a.password # Unhashed(p)

\* change_user_password has just replaced the password of the second
\* account, registered with "pw1", by the hash of "pw2"
C20_Witness ==
    /\ resp.op = "change_user_password"
    /\ resp.status = 0
    /\ \E a \in accounts :
        /\ a.id = 2
        /\ [id |-> 2, password |-> "pw2"] \in lastSet
        /\ \E salt \in Salts : a.password = hash_password("pw2", salt)

\* C21: under FieldSpec, a registration whose username has a character
\* other than letters, digits and underscore, or whose phone number has a
\* digit count outside 10..15, is answered 422 by the request DTO, before
\* the existence checks, the hashing and the insert; and a body the request
\* DTO accepts is never rejected by the Account validators.
C21_FieldRulesRejectedAsValidationError ==
    Idle => \A body \in FieldRegisterData, salt \in Salts :
        LET r == post_register_user(accounts, body, nextId, salt)
            violates == \/ ~validate_username(lower(body.username))
                        \/ ~validate_phone(body.phoneNumber)
        IN  /\ violates =>
                /\ r.status = HTTP_422_UNPROCESSABLE_ENTITY
                /\ r.stage = "dto"
                /\ r.accounts = accounts
            /\ r.stage # "Account validators"

\* C22: under DepSpec, when the header carries a token, get_current_user
\* gives the result it gives for that header token alone, whatever the
\* cookie: a header token that does not verify is Unauthenticated although
\* the cookie is valid, and a valid header token of one account resolves to
\* that account although the cookie is a valid token of another; the cookie
\* decides only when the header carries no token.
C22_HeaderTakesPrecedence ==
    Idle => \A header \in HeaderTokens, c \in HeaderTokens :
        LET both == get_current_user(accounts, header, c, now)
            headerOnly == get_current_user(accounts, header, NoToken, now)
            cookieOnly == get_current_user(accounts, NoToken, c, now)
        IN  /\ header # NoToken => both = headerOnly
            /\ header = NoToken => both = cookieOnly
            /\ (header # NoToken /\ verify_token(header, now) = NoPayload)
                  => both = credentials_exception
            /\ (headerOnly.status = 0 /\ cookieOnly.status = 0)
                  => both.user.id = verify_token(header, now).sub

\* GET /me has just resolved to the ADMIN whose token the header carried,
\* while the cookie sent along is a valid token of a stored USER account
C22_Witness ==
    /\ resp.op = "me"
    /\ resp.status = HTTP_200_OK
    /\ resp.role = "ADMIN"
    /\ cookie.tok.role = "USER"
    /\ get_current_user(accounts, NoToken, cookie.tok, now).status = 0

\* C23: under RegRaceSpec, however the existence checks and the inserts of
\* concurrent registrations interleave, no two stored accounts share a
\* username or an email, and a registration that creates no account is
\* answered 400.
C23_Unique ==
    \A a, b \in accounts :
        (a.username = b.username \/ a.email = b.email) => a = b

C23_Step ==
    (resp'.op = "register_user" /\ resp' # resp) =>
        \/ resp'.status = HTTP_201_CREATED /\ Cardinality(accounts') = Cardinality(accounts) + 1
        \/ resp'.status = HTTP_400_BAD_REQUEST /\ accounts' = accounts

C23_ConcurrentDuplicateIsConflict == [](C23_Unique) /\ [][C23_Step]_vars

\* C24: under SessionSpec, an update_profile or admin_update_user that
\* supplies fullName and/or phoneNumber and fails with 400 "Email already
\* exists" leaves the accounts table as it was, the fullName and phoneNumber
\* of the target included, and no stored account ever holds a fullName or
\* phoneNumber that only a failed call supplied.
C24_Step ==
    /\ (/\ resp'.op \in {"update_profile", "admin_update_user"}
        /\ resp'.detail = "Email already exists")
         => resp'.status = HTTP_400_BAD_REQUEST /\ accounts' = accounts
    /\ \A a \in accounts' :
         (a.fullName \in SessionFullNames \/ a.phoneNumber \in SessionPhones)
            => (a \in accounts \/ resp'.status = 0)

C24_FailedEmailUpdateLeavesNoTrace == [][C24_Step]_vars

\* an update that supplied a new fullName or phoneNumber has just failed on
\* the email of another account; every stored account has the fullName and
\* phoneNumber it was registered with
C24_Witness ==
    /\ resp.op \in {"update_profile", "admin_update_user"}
    /\ resp.status = HTTP_400_BAD_REQUEST
    /\ resp.detail = "Email already exists"
    /\ Cardinality(accounts) = 2
    /\ \A a \in accounts : a.fullName = "F1" /\ a.phoneNumber = "P1"

\* C25: under PathSpec, where requests are processed one at a time, no
\* DELETE /admin/delete-admin/{admin_id} is answered "Cannot delete the last
\* admin account in the system": whenever delete_admin reaches the count
\* check, the caller and the target are two distinct stored ADMIN accounts.
C25_LastAdminGuardNeverFires ==
    Idle => \A cred \in SingleCredentials, admin_id \in PathIds :
        LET dep == get_current_admin_user(accounts, cred.header, cred.cookie, now)
            r == ctl_delete_admin_path(accounts, cred, admin_id, now)
            target == get_by_id_text(accounts, admin_id)
            reachesCount == /\ dep.status = 0
                            /\ str(dep.user.id) # admin_id
                            /\ target # NoAccount
                            /\ is_admin(target)
        IN  /\ r.detail # "Cannot delete the last admin account in the system"
            /\ reachesCount =>
                 /\ dep.user \in accounts /\ is_admin(dep.user)
                 /\ target # dep.user
                 /\ count_admins(accounts) >= 2

\* C26: under StatelessSpec, no step that leaves the clock alone (a logout,
\* a registration, a password change, the deletion of an account) changes
\* what introspect and verify_token answer for the token the client held
\* before the step; and a token that verifies while no stored account has
\* its subject is reported active by introspect and rejected by
\* get_current_user.
C26_Step ==
    now' = now =>
        \A body \in IntrospectRequest(cookie) :
            /\ introspect(body, now)' = introspect(body, now)
            /\ verify_token(body.token, now)' = verify_token(body.token, now)

C26_DeletedSubject ==
    \A body \in IntrospectRequest(cookie) :
        LET payload == verify_token(body.token, now)
        IN  (payload # NoPayload /\ get_by_id(accounts, payload.sub) = NoAccount)
              => /\ introspect(body, now).active
                 /\ introspect(body, now).claims = payload
                 /\ get_current_user(accounts, body.token, NoToken, now)
                       = credentials_exception
                 /\ get_current_user(accounts, NoToken, body.token, now)
                       = credentials_exception

C26_IntrospectIgnoresStore == [](C26_DeletedSubject) /\ [][C26_Step]_vars

\* introspect has just reported active the token of an account that logged
\* in, changed nothing about the token, and was deleted since
C26_Witness ==
    /\ resp.op = "introspect"
    /\ resp.detail = "active"
    /\ cookie.tok.sig = "ok"
    /\ cookie.tok.sub # 0
    /\ get_by_id(accounts, cookie.tok.sub) = NoAccount
    /\ get_current_user(accounts, NoToken, cookie.tok, now) = credentials_exception

(***************************************************************************)
(* Profile pictures (PictureSpec).  app/services/auth_service.py and       *)
(* app/dtos/user_dto.py.  An image is its bytes, told apart by a name, and *)
(* their number; an account whose profile_picture column is None has no    *)
(* row in pictures.                                                        *)
(***************************************************************************)
max_size == 5 * 1024 * 1024

Images ==
    {[name |-> "", len |-> 0], [name |-> "img1", len |-> 1],
     [name |-> "img2", len |-> max_size], [name |-> "img3", len |-> max_size + 1]}

ContentTypes == {"image/png", "IMAGE/PNG", "image/webp"}

allowed_types == {"image/jpeg", "image/jpg", "image/png", "image/gif"}

PictureOutcome(pics, status_code, detail, image_data, content_type) ==
    [pictures |-> pics, status |-> status_code, detail |-> detail,
     image_data |-> image_data, content_type |-> content_type]

has_picture_row(pics, id) == \E p \in pics : p.id = id

picture_row(pics, id) == CHOOSE p \in pics : p.id = id

upload_profile_picture(pics, user, image_data, content_type) ==
    IF image_data.len > max_size
    THEN PictureOutcome(pics, HTTP_400_BAD_REQUEST,
                        "Image size exceeds maximum allowed size of 5MB",
                        image_data, content_type)
    ELSE IF lower(content_type) \notin allowed_types
    THEN PictureOutcome(pics, HTTP_400_BAD_REQUEST, "Invalid image type",
                        image_data, content_type)
    ELSE PictureOutcome({p \in pics : p.id # user.id} \cup
                            {[id |-> user.id, profile_picture |-> image_data,
                              profile_picture_content_type |-> content_type]},
                        0, "", image_data, content_type)

\* "not user.profile_picture" is true of None and of no bytes
get_profile_picture(accts, pics, user_id) ==
    IF get_by_id(accts, user_id) = NoAccount
    THEN PictureOutcome(pics, HTTP_404_NOT_FOUND, "User not found",
                        [name |-> "", len |-> 0], "")
    ELSE IF \/ ~has_picture_row(pics, user_id)
            \/ picture_row(pics, user_id).profile_picture.len = 0
    THEN PictureOutcome(pics, HTTP_404_NOT_FOUND, "User has no profile picture",
                        [name |-> "", len |-> 0], "")
    ELSE LET p == picture_row(pics, user_id)
         IN  PictureOutcome(pics, 0, "", p.profile_picture,
                            IF p.profile_picture_content_type = ""
                            THEN "image/jpeg"
                            ELSE p.profile_picture_content_type)

delete_profile_picture(pics, user) ==
    PictureOutcome({p \in pics : p.id # user.id}, 0, "",
                   [name |-> "", len |-> 0], "")

\* UserInfoResponse.from_account: "account.profile_picture is not None"
hasProfilePicture(pics, account) == has_picture_row(pics, account.id)

UploadProfilePicture ==
    /\ Idle
    /\ \E user \in accounts, image_data \in Images, content_type \in ContentTypes :
        LET r == upload_profile_picture(pictures, user, image_data, content_type)
        IN  /\ pictures' = r.pictures
            /\ resp' = KeptSvc("upload_profile_picture", r, user)
    /\ UNCHANGED <<accounts, nextId, now, cookie, inflight, webhooks, lastSet>>

GetProfilePicture ==
    /\ Idle
    /\ \E user_id \in TargetIds :
        LET r == get_profile_picture(accounts, pictures, user_id)
        IN  resp' = KeptSvc("get_profile_picture", r, NoAccount)
    /\ UNCHANGED <<accounts, nextId, now, cookie, inflight, webhooks, lastSet, pictures>>

DeleteProfilePicture ==
    /\ Idle
    /\ \E user \in accounts :
        LET r == delete_profile_picture(pictures, user)
        IN  /\ pictures' = r.pictures
            /\ resp' = KeptSvc("delete_profile_picture", r, user)
    /\ UNCHANGED <<accounts, nextId, now, cookie, inflight, webhooks, lastSet>>

PictureNext ==
    \/ SvcRegisterUser
    \/ UploadProfilePicture
    \/ GetProfilePicture
    \/ DeleteProfilePicture
    \/ Deliver

PictureSpec == Init /\ [][PictureNext]_vars

\* C29: on every stored account, get_profile_picture succeeds exactly when
\* hasProfilePicture is true; an accepted upload makes it succeed with the
\* uploaded bytes and content type, a rejected upload leaves its answer as it
\* was, and a delete makes it fail.
C29_PictureFollowsUploads ==
    Idle =>
        \A user \in accounts :
            /\ hasProfilePicture(pictures, user)
                   <=> (get_profile_picture(accounts, pictures, user.id).status = 0)
            /\ get_profile_picture(accounts,
                                   delete_profile_picture(pictures, user).pictures,
                                   user.id).status = HTTP_404_NOT_FOUND
            /\ \A image_data \in Images, content_type \in ContentTypes :
                LET u == upload_profile_picture(pictures, user, image_data, content_type)
                    g == get_profile_picture(accounts, u.pictures, user.id)
                IN  IF u.status = 0
                    THEN /\ g.status = 0
                         /\ g.image_data = image_data
                         /\ g.content_type = content_type
                         /\ hasProfilePicture(u.pictures, user)
                    ELSE g = get_profile_picture(accounts, pictures, user.id)

(***************************************************************************)
(* The operations that write a stored account, the picture operations and  *)
(* login (FrameSpec).                                                      *)
(***************************************************************************)
\* an upload the service accepts
FrameUploadProfilePicture ==
    /\ Idle
    /\ \E user \in accounts :
        LET r == upload_profile_picture(pictures, user,
                                        [name |-> "img1", len |-> 1], "image/png")
        IN  /\ pictures' = r.pictures
            /\ resp' = KeptSvc("upload_profile_picture", r, user)
    /\ UNCHANGED <<accounts, nextId, now, cookie, inflight, webhooks, lastSet>>

FrameNext ==
    \/ Login
    \/ RegisterUser
    \/ SvcUpdateProfile
    \/ SvcAdminUpdateUser
    \/ SvcUpdateAccount
    \/ SvcChangeUserPassword
    \/ SvcDeleteAccount
    \/ FrameUploadProfilePicture
    \/ DeleteProfilePicture
    \/ Deliver

FrameSpec == Init /\ [][FrameNext]_vars

\* an account that exists before and after a step keeps its username and role
C27_Step ==
    \A a \in accounts, b \in accounts' :
        a.id = b.id => b.username = a.username /\ b.role = a.role

\* the token issued at login names the username and role of the stored
\* account with its subject, while that account exists
C27_TokenMatches ==
    cookie.tok # NoToken =>
        \A a \in accounts :
            a.id = cookie.tok.sub =>
                a.username = cookie.tok.username /\ a.role = cookie.tok.role

\* C27: no operation changes the id, username or role of an existing
\* account, so the subject, username and role of a token issued at login
\* equal those of the stored account for as long as it exists.
C27_IdentityIsFrozen == [](C27_TokenMatches) /\ [][C27_Step]_vars

\* the holder of a token has had its email replaced after login
C27_Witness ==
    /\ cookie.tok # NoToken
    /\ resp.op \in {"update_profile", "admin_update_user", "update_account"}
    /\ resp.status = 0
    /\ \E a \in accounts :
        /\ a.id = cookie.tok.sub
        /\ a.username = "ann"
        /\ a.email = "b@x"
        /\ has_picture_row(pictures, a.id)

(***************************************************************************)
(* get_user_by_id in two steps (LookupSpec): the dependency resolves the   *)
(* caller, and the handler looks the target up in a later query, between   *)
(* which another request may commit a deletion.                            *)
(***************************************************************************)
GetUserResolve ==
    /\ Idle
    /\ inflight = {}
    /\ \E cred \in SingleCredentials, user_id \in TargetIds,
          outcome \in CollaboratorOutcomes :
        LET dep == get_current_user(accounts, cred.header, cred.cookie, now)
        IN  IF dep.status # 0
            THEN /\ inflight' = inflight
                 /\ resp' = Kept("get_user_by_id", Rejected(accounts, dep))
            ELSE /\ inflight' = {[current_user |-> dep.user, user_id |-> user_id,
                                  outcome |-> outcome]}
                 /\ resp' = resp
    /\ UNCHANGED <<accounts, nextId, now, cookie, webhooks, lastSet, pictures>>

GetUserLookup ==
    /\ Idle
    /\ \E c \in inflight :
        /\ inflight' = inflight \ {c}
        /\ resp' = Kept("get_user_by_id",
                        get_user_by_id_body(accounts, c.current_user, c.user_id,
                                            c.outcome))
    /\ UNCHANGED <<accounts, nextId, now, cookie, webhooks, lastSet, pictures>>

LookupNext ==
    \/ Login
    \/ SvcRegisterPropertyOwner
    \/ SvcDeleteAccount
    \/ GetUserResolve
    \/ GetUserLookup
    \/ Deliver

LookupSpec == Init /\ [][LookupNext]_vars

C28_OwnAccountDeleted ==
    \E c \in inflight :
        /\ is_property_owner(c.current_user)
        /\ c.current_user.id = c.user_id
        /\ get_by_id(accounts, c.user_id) = NoAccount

(***************************************************************************)
(* Paginated listings (ListSpec).  app/controllers/admin_controller.py and *)
(* AccountRepository.get_all_paginated.  The query has no ORDER BY: the    *)
(* order in which the database returns the rows is not determined by the   *)
(* program, and each query is answered in one of the orders of the rows.   *)
(***************************************************************************)
PageInputs == 0..3

SizeInputs == {0, 1, 2, 100, 101}

\* the orders in which the rows of S can be returned
Orders(S) ==
    {f \in [1..Cardinality(S) -> S] : \A x \in S : \E i \in DOMAIN f : f[i] = x}

\* math.ceil(total / size)
math_ceil(total, size) ==
    IF total % size = 0 THEN total \div size ELSE (total \div size) + 1

\* order: the rows with the filtered role as the database returns them
get_all_paginated(accts, page, size, role_filter, order) ==
    LET total == Cardinality({a \in accts : a.role = role_filter})
        offset == (page - 1) * size
        last == IF offset + size < Len(order) THEN offset + size ELSE Len(order)
    IN  [accounts |-> IF offset >= Len(order) THEN <<>>
                      ELSE SubSeq(order, offset + 1, last),
         total |-> total]

list_users(accts, cred, page, size, order, t) ==
    LET dep == get_current_admin_user(accts, cred.header, cred.cookie, t)
        got == get_all_paginated(accts, page, size, "USER", order)
    IN  IF dep.status # 0
        THEN [status |-> dep.status, detail |-> dep.detail,
              role |-> caller_role(accts, cred, t), rel |-> "not_called",
              items |-> <<>>, total |-> 0, page |-> page, size |-> size, pages |-> 0]
        ELSE IF page < 1 \/ size < 1 \/ size > 100
        THEN [status |-> HTTP_422_UNPROCESSABLE_ENTITY, detail |-> "validation error",
              role |-> dep.user.role, rel |-> "not_called",
              items |-> <<>>, total |-> 0, page |-> page, size |-> size, pages |-> 0]
        ELSE [status |-> HTTP_200_OK, detail |-> "", role |-> dep.user.role,
              rel |-> "not_called", items |-> got.accounts, total |-> got.total,
              page |-> page, size |-> size,
              pages |-> IF got.total > 0 THEN math_ceil(got.total, size) ELSE 0]

list_property_owners(accts, cred, page, size, order, t) ==
    LET dep == get_current_admin_user(accts, cred.header, cred.cookie, t)
        got == get_all_paginated(accts, page, size, "PROPERTY_OWNER", order)
    IN  IF dep.status # 0
        THEN [status |-> dep.status, detail |-> dep.detail,
              role |-> caller_role(accts, cred, t), rel |-> "not_called",
              items |-> <<>>, total |-> 0, page |-> page, size |-> size, pages |-> 0]
        ELSE IF page < 1 \/ size < 1 \/ size > 100
        THEN [status |-> HTTP_422_UNPROCESSABLE_ENTITY, detail |-> "validation error",
              role |-> dep.user.role, rel |-> "not_called",
              items |-> <<>>, total |-> 0, page |-> page, size |-> size, pages |-> 0]
        ELSE [status |-> HTTP_200_OK, detail |-> "", role |-> dep.user.role,
              rel |-> "not_called", items |-> got.accounts, total |-> got.total,
              page |-> page, size |-> size,
              pages |-> IF got.total > 0 THEN math_ceil(got.total, size) ELSE 0]

ListUsers ==
    /\ Idle
    /\ \E cred \in SingleCredentials, page \in PageInputs, size \in SizeInputs,
          order \in Orders({a \in accounts : a.role = "USER"}) :
        resp' = Kept("list_users", list_users(accounts, cred, page, size, order, now))
    /\ UNCHANGED <<accounts, nextId, now, cookie, inflight, webhooks, lastSet, pictures>>

ListPropertyOwners ==
    /\ Idle
    /\ \E cred \in SingleCredentials, page \in PageInputs, size \in SizeInputs,
          order \in Orders({a \in accounts : a.role = "PROPERTY_OWNER"}) :
        resp' = Kept("list_property_owners",
                     list_property_owners(accounts, cred, page, size, order, now))
    /\ UNCHANGED <<accounts, nextId, now, cookie, inflight, webhooks, lastSet, pictures>>

\* the store once two users and two property owners have registered
ListInit ==
    /\ accounts = {RootAdmin,
                   Account(2, "ann", "F1", "a@x", "P1", hash_password("pw1", 1), "USER"),
                   Account(3, "bob", "F1", "b@x", "P1", hash_password("pw1", 1), "USER"),
                   Account(4, "dan", "F1", "d@x", "P1", hash_password("pw1", 1),
                           "PROPERTY_OWNER"),
                   Account(5, "eve", "F1", "e@x", "P1", hash_password("pw1", 1),
                           "PROPERTY_OWNER")}
    /\ nextId = 6
    /\ now = 0
    /\ cookie = NoCookie
    /\ resp = NoResp
    /\ inflight = {}
    /\ webhooks = <<>>
    /\ lastSet = {[id |-> i, password |-> "pw1"] : i \in 1..5}
    /\ pictures = {}

ListNext ==
    \/ Login
    \/ Logout
    \/ Tick
    \/ SvcDeleteAccount
    \/ ListUsers
    \/ ListPropertyOwners
    \/ Deliver

ListSpec == ListInit /\ [][ListNext]_vars

\* the administrator's request
C30_AdminCred == [header |-> NoToken, cookie |-> cookie.tok]

\* the pages 1..pages of the role, each answered by a query of its own
C30_Listing(role, size, orders) ==
    [p \in DOMAIN orders |->
        IF role = "USER"
        THEN list_users(accounts, C30_AdminCred, p, size, orders[p], now)
        ELSE list_property_owners(accounts, C30_AdminCred, p, size, orders[p], now)]

\* C30: for list_users and list_property_owners with page >= 1 and size in
\* 1..100 over an unchanged store, total is the number of accounts of the
\* role, pages is the ceiling of total/size (0 when total is 0), every page
\* has at most size items, all of the role, and the pages 1..pages together
\* contain every account of the role exactly once.
C30_PagesPartitionTheRole ==
    (Idle /\ get_current_admin_user(accounts, NoToken, cookie.tok, now).status = 0) =>
        \A role \in {"USER", "PROPERTY_OWNER"}, size \in SizeInputs \cap (1..100) :
            LET rows == {a \in accounts : a.role = role}
                total == Cardinality(rows)
                pages == IF total = 0 THEN 0 ELSE math_ceil(total, size)
            IN  \A orders \in [1..pages -> Orders(rows)] :
                    LET listing == C30_Listing(role, size, orders)
                    IN  /\ \A p \in 1..pages :
                            /\ listing[p].status = HTTP_200_OK
                            /\ listing[p].total = total
                            /\ listing[p].pages = pages
                            /\ pages * size >= total
                            /\ (pages - 1) * size < total
                            /\ Len(listing[p].items) <= size
                            /\ \A i \in DOMAIN listing[p].items :
                                   listing[p].items[i].role = role
                        /\ \A a \in rows :
                            Cardinality({<<p, i>> \in (1..pages) \X (1..size) :
                                            /\ i <= Len(listing[p].items)
                                            /\ listing[p].items[i] = a}) = 1

====
